---- MODULE Spec2Model ----
(***************************************************************************)
(* The feed refresher and snapshot cache of lib/server.js (createServer):  *)
(* the single-flight refresh(), the self-rescheduling refresh timer,       *)
(* ensureLatest(), the /positions handler, start() and stop().             *)
(*                                                                         *)
(* JavaScript runs one task at a time.  A macrotask (a timer firing, an    *)
(* HTTP request arriving, a fetch completing, a call of start()/stop())    *)
(* runs to its first await; when a promise settles, the continuations      *)
(* awaiting it run as microtasks before any further macrotask.             *)
(***************************************************************************)
EXTENDS Integers, Sequences, FiniteSets, TLC

VARIABLES
    env,                  \* <<>>, or <<e>>: main.js ran with environment e
    options,              \* the options object handed to createServer
    now,                  \* Date.now()
    vehicles,             \* the cached records
    vehiclesJson,         \* their serialized form
    vehiclesEtag,         \* the fingerprint
    lastUpdatedAtMs,      \* 0 until a refresh has succeeded
    lastUpdateError,      \* NoError, or the error of the last failed refresh
    consecutiveFailures,
    inFlightUpdate,       \* 0 (null), or the promise of the refresh in flight
    updates,              \* the promises created by refresh(): one record each
    refreshTimer,         \* NoTimer (null), or the last Timeout handle stored
    timers,               \* the Timeouts armed in the runtime and not yet fired
    hasStopped,
    httpServer,           \* TRUE while the HTTP server is listening
    fetchCalls,           \* how many times fetchImpl has been called
    pc,                   \* where each task stands
    awaiting,             \* the promise each task awaits (0: none)
    role,                 \* how the task came to await it
    req,                  \* the request each handler is serving
    resp,                 \* the response each handler has sent
    health                \* the response /healthz has sent

vars == <<env, options, now, vehicles, vehiclesJson, vehiclesEtag, lastUpdatedAtMs,
          lastUpdateError, consecutiveFailures, inFlightUpdate, updates,
          refreshTimer, timers, hasStopped, httpServer, fetchCalls, pc,
          awaiting, role, req, resp, health>>

cacheVars == <<vehicles, vehiclesJson, vehiclesEtag, lastUpdatedAtMs,
               lastUpdateError, consecutiveFailures>>

(***************************************************************************)
(* Bounds of the model.                                                    *)
(***************************************************************************)
\* upstream fetches issued in one run
MaxFetches == 3
\* how many times the clock advances in one run
MaxTicks == 1
\* request handlers that can be active at once
MaxRequests == 2
\* promise slots: refresh() promises that can exist at once
MaxUpdates == 2
\* Date.now() when the server is created
StartMs == 1000

Min(a, b) == IF a < b THEN a ELSE b
Max(a, b) == IF a > b THEN a ELSE b

RECURSIVE Pow2(_)
Pow2(n) == IF n <= 0 THEN 1 ELSE 2 * Pow2(n - 1)

(***************************************************************************)
(* Configuration: createServer's validation of its options.  An option is  *)
(* <<>> when absent (== null) and <<n>> when given as the number n.        *)
(***************************************************************************)
Given(o) == Len(o) > 0

DEFAULT_REFRESH_INTERVAL_MS == 30000
MIN_REFRESH_INTERVAL_MS == 5000
DEFAULT_FETCH_TIMEOUT_MS == 10000
DEFAULT_MAX_BACKOFF_MS == 300000
MAX_BACKOFF_MULTIPLIER == 16

\* a validation without the floor of MIN_REFRESH_INTERVAL_MS
EffRefreshIntervalMs_Unclamped(opts) ==
    LET given == IF Given(opts.refreshIntervalMs)
                 THEN opts.refreshIntervalMs[1] ELSE DEFAULT_REFRESH_INTERVAL_MS
        valid == IF given <= 0 THEN DEFAULT_REFRESH_INTERVAL_MS ELSE given
    IN  valid

\* lines 44-53
EffRefreshIntervalMs(opts) ==
    LET given == IF Given(opts.refreshIntervalMs)
                 THEN opts.refreshIntervalMs[1] ELSE DEFAULT_REFRESH_INTERVAL_MS
        valid == IF given <= 0 THEN DEFAULT_REFRESH_INTERVAL_MS ELSE given
    IN  IF valid < MIN_REFRESH_INTERVAL_MS THEN MIN_REFRESH_INTERVAL_MS ELSE valid

EffStaleAfterMs(opts) ==
    LET interval == EffRefreshIntervalMs(opts)
        given == IF Given(opts.staleAfterMs)
                 THEN opts.staleAfterMs[1] ELSE interval * 4
        valid == IF given <= 0 THEN interval * 4 ELSE given
        minimumStale == interval * 2
    IN  IF valid < minimumStale THEN minimumStale ELSE valid

EffFetchTimeoutMs(opts) ==
    LET given == IF Given(opts.fetchTimeoutMs)
                 THEN opts.fetchTimeoutMs[1] ELSE DEFAULT_FETCH_TIMEOUT_MS
    IN  IF given <= 0 THEN DEFAULT_FETCH_TIMEOUT_MS ELSE given

\* a ceiling taken as given, without the comparison with the interval
EffMaxBackoffMs_Unchecked(opts) ==
    IF Given(opts.maxBackoffMs)
    THEN opts.maxBackoffMs[1] ELSE DEFAULT_MAX_BACKOFF_MS

EffMaxBackoffMs(opts) ==
    LET interval == EffRefreshIntervalMs(opts)
        given == IF Given(opts.maxBackoffMs)
                 THEN opts.maxBackoffMs[1] ELSE DEFAULT_MAX_BACKOFF_MS
        fallback == Max(interval * 4, DEFAULT_MAX_BACKOFF_MS)
    IN  IF given <= interval THEN fallback ELSE given

refreshIntervalMs == EffRefreshIntervalMs(options)
staleAfterMs == EffStaleAfterMs(options)
fetchTimeoutMs == EffFetchTimeoutMs(options)
maxBackoffMs == EffMaxBackoffMs(options)

\* the options of the test suite's staleness test, and createServer's defaults
StaleTestOptions ==
    [refreshIntervalMs |-> <<10000>>, staleAfterMs |-> <<10>>,
     fetchTimeoutMs |-> <<100>>, maxBackoffMs |-> <<>>]
DefaultOptions ==
    [refreshIntervalMs |-> <<>>, staleAfterMs |-> <<>>,
     fetchTimeoutMs |-> <<>>, maxBackoffMs |-> <<>>]
OptionSets == {StaleTestOptions, DefaultOptions}

(***************************************************************************)
(* main.js: the environment variables become the options of createServer.  *)
(* A variable is <<>> when unset (or not a number) and <<n>> when its text *)
(* parses to the integer n.                                                *)
(***************************************************************************)
\* main.js lines 19-22
parseEnvInt(rawValue, fallback) ==
    IF Given(rawValue) THEN rawValue[1] ELSE fallback

\* main.js lines 25-39
MainOptions(e) ==
    LET REFRESH_INTERVAL_MS == parseEnvInt(e.REFRESH_INTERVAL_MS, 30000)
        STALE_AFTER_MS == parseEnvInt(e.STALE_AFTER_MS, REFRESH_INTERVAL_MS * 4)
        FETCH_TIMEOUT_MS == parseEnvInt(e.FETCH_TIMEOUT_MS, 10000)
        MAX_BACKOFF_MS == parseEnvInt(e.MAX_BACKOFF_MS,
                                      Max(REFRESH_INTERVAL_MS * 8, 5 * 60 * 1000))
    IN  [refreshIntervalMs |-> <<REFRESH_INTERVAL_MS>>,
         staleAfterMs |-> <<STALE_AFTER_MS>>,
         fetchTimeoutMs |-> <<FETCH_TIMEOUT_MS>>,
         maxBackoffMs |-> <<MAX_BACKOFF_MS>>]

(***************************************************************************)
(* The upstream feed and its decoding (the loop over feed.entity).  An     *)
(* optional field is <<>> when absent and <<v>> when present.              *)
(***************************************************************************)
Position(lat, lon) == [latitude |-> lat, longitude |-> lon]
\* entity.vehicle.vehicle, the VehicleDescriptor
Descriptor(id, label) == [id |-> id, label |-> label]
\* entity.vehicle.trip, the TripDescriptor, with the properties the loop reads
Trip(tripHeadsign, destination, directionId, direction_id) ==
    [tripHeadsign |-> tripHeadsign, trip_headsign |-> <<>>, headsign |-> <<>>,
     tripDestination |-> <<>>, destination |-> destination,
     directionId |-> directionId, direction_id |-> direction_id]
\* entity.vehicle, the VehiclePosition
VehiclePosition(trip, descriptor, position, headsign) ==
    [trip |-> trip, vehicle |-> descriptor, position |-> position,
     headsign |-> headsign]
\* a VehiclePosition with no trip, whose descriptor has at most an id
Vehicle(descriptorId, position) ==
    VehiclePosition(<<>>,
                    IF Len(descriptorId) > 0
                    THEN <<Descriptor(descriptorId, <<>>)>> ELSE <<>>,
                    position, <<>>)
Entity(id, vehicle) == [id |-> id, vehicle |-> vehicle]

\* the feed of the test suite: one vehicle veh-1 of route 10, labelled with
\* its route, with both coordinates
TestFeed ==
    <<Entity("veh-1",
             <<VehiclePosition(<<Trip(<<>>, <<>>, <<>>, <<>>)>>,
                               <<Descriptor(<<"veh-1">>, <<"10">>)>>,
                               <<Position(<<51>>, <<19>>)>>, <<>>)>>)>>
\* a vehicle with both coordinates between one without longitude, one without
\* a position and one entity that is no vehicle
MixedFeed ==
    <<Entity("e-1", <<Vehicle(<<"veh-2">>, <<Position(<<52>>, <<>>)>>)>>),
      Entity("e-2", <<Vehicle(<<>>, <<Position(<<50>>, <<20>>)>>)>>),
      Entity("e-3", <<Vehicle(<<"veh-3">>, <<>>)>>),
      Entity("e-4", <<>>)>>
EmptyFeed == <<>>
Feeds == {TestFeed, MixedFeed, EmptyFeed}

\* what response.arrayBuffer() delivers: bytes that decode to a feed, or bytes
\* FeedMessage.decode throws on
Decodable(feed) == [decodes |-> TRUE, entity |-> feed]
Malformed == [decodes |-> FALSE, entity |-> <<>>]
Payloads == {Decodable(f) : f \in Feeds} \cup {Malformed}

\* a filter that takes a zero coordinate for a missing one
HasCoordinates_Truthy(entity) ==
    /\ Given(entity.vehicle)
    /\ Given(entity.vehicle[1].position)
    /\ Given(entity.vehicle[1].position[1].latitude)
    /\ entity.vehicle[1].position[1].latitude[1] # 0
    /\ Given(entity.vehicle[1].position[1].longitude)
    /\ entity.vehicle[1].position[1].longitude[1] # 0

\* line 122: the entities the loop does not skip
HasCoordinates(entity) ==
    /\ Given(entity.vehicle)
    /\ Given(entity.vehicle[1].position)
    /\ Given(entity.vehicle[1].position[1].latitude)
    /\ Given(entity.vehicle[1].position[1].longitude)

\* an optional string that is neither absent nor empty
Truthy(o) == Len(o) > 0 /\ o[1] # ""
\* a || b
Or(a, b) == IF Truthy(a) THEN a ELSE b

\* the characters of the model: " " is the white space, and "~" stands for
\* the en dash (U+2013)
Whitespace == {" "}
Separators == {"-", "~", ">"}

RECURSIVE trimStart(_)
trimStart(s) ==
    IF s # "" /\ Head(s) \in Whitespace THEN trimStart(Tail(s)) ELSE s

RECURSIVE trimEnd(_)
trimEnd(s) ==
    IF s # "" /\ SubSeq(s, Len(s), Len(s)) \in Whitespace
    THEN trimEnd(SubSeq(s, 1, Len(s) - 1)) ELSE s

trim(s) == trimEnd(trimStart(s))

\* group 1 of the match of /[-~>]{1,2}\s*(.+)$/ that starts at index i of
\* text, or <<>>: two separators are tried before one, and \s* takes all the
\* white space it can and gives one character back when nothing is left
RegexGroupAt(text, i) ==
    LET Try(k) ==
            LET rest == SubSeq(text, i + k, Len(text))
                spaces == Len(rest) - Len(trimStart(rest))
            IN  IF rest = "" THEN <<>>
                ELSE IF spaces < Len(rest)
                THEN <<SubSeq(rest, spaces + 1, Len(rest))>>
                ELSE <<SubSeq(rest, Len(rest), Len(rest))>>
        two == i + 1 <= Len(text) /\ SubSeq(text, i + 1, i + 1) \in Separators
    IN  IF SubSeq(text, i, i) \notin Separators THEN <<>>
        ELSE IF two /\ Len(Try(2)) > 0 THEN Try(2)
        ELSE Try(1)

\* text.match(...): the leftmost match, searched from index i
RECURSIVE separatorMatch(_, _)
separatorMatch(text, i) ==
    IF i > Len(text) THEN <<>>
    ELSE IF Len(RegexGroupAt(text, i)) > 0 THEN RegexGroupAt(text, i)
    ELSE separatorMatch(text, i + 1)

\* lines 25-34
deriveHeadsignFromLabel(label) ==
    IF ~Truthy(label) THEN <<>>
    ELSE LET text == trim(label[1])
         IN  IF text = "" THEN <<>>
             ELSE LET match == separatorMatch(text, 1)
                  IN  IF Truthy(match) THEN <<trim(match[1])>> ELSE <<>>

\* a loop that derives the headsign from the label whatever the feed says
Headsign_AlwaysDerived(vehicle, attribs, label) ==
    deriveHeadsignFromLabel(label)

\* lines 138-147
Headsign(vehicle, attribs, label) ==
    LET explicit == Or(vehicle.headsign,
                    Or(attribs.tripHeadsign,
                    Or(attribs.trip_headsign,
                    Or(attribs.headsign,
                    Or(attribs.tripDestination, attribs.destination)))))
    IN  IF Truthy(explicit) THEN explicit ELSE deriveHeadsignFromLabel(label)

\* a loop that reads the direction with ||, for which 0 is no value
DirectionId_Falsy(attribs) ==
    IF Len(attribs.directionId) > 0 /\ attribs.directionId[1] # 0
    THEN attribs.directionId
    ELSE IF Len(attribs.direction_id) > 0 /\ attribs.direction_id[1] # 0
    THEN attribs.direction_id
    ELSE <<>>

\* lines 148-150
DirectionId(attribs) ==
    LET directionIdProvided ==
            Len(attribs.directionId) > 0 \/ Len(attribs.direction_id) > 0
    IN  IF ~directionIdProvided THEN <<>>
        ELSE IF Len(attribs.directionId) > 0 THEN attribs.directionId
        ELSE attribs.direction_id

\* lines 125-165: the record pushed for an entity that is not skipped
Item(entity) ==
    LET vehicle == entity.vehicle[1]
        trip == IF Given(vehicle.trip)
                THEN vehicle.trip[1] ELSE Trip(<<>>, <<>>, <<>>, <<>>)
        attribs == trip
        vehicleDescriptor == IF Given(vehicle.vehicle)
                             THEN vehicle.vehicle[1] ELSE Descriptor(<<>>, <<>>)
        rawLabel == IF Truthy(Or(vehicleDescriptor.label, vehicleDescriptor.id))
                    THEN Or(vehicleDescriptor.label, vehicleDescriptor.id)
                    ELSE <<>>
        label == IF Given(rawLabel) THEN <<trim(rawLabel[1])>> ELSE <<>>
        headsign == Headsign(vehicle, attribs, label)
        id == Or(Or(vehicleDescriptor.id, vehicleDescriptor.label), <<entity.id>>)
    IN  [id  |-> IF Truthy(id) THEN id ELSE <<>>,
         label |-> label,
         lat |-> vehicle.position[1].latitude[1],
         lon |-> vehicle.position[1].longitude[1],
         headsign |-> IF Truthy(headsign) THEN <<trim(headsign[1])>> ELSE <<>>,
         directionId |-> DirectionId(attribs)]

RECURSIVE DecodeItems(_)
DecodeItems(entities) ==
    IF entities = <<>> THEN <<>>
    ELSE IF HasCoordinates(Head(entities))
         THEN <<Item(Head(entities))>> \o DecodeItems(Tail(entities))
         ELSE DecodeItems(Tail(entities))

(***************************************************************************)
(* JSON.stringify of the records, and computeEtag.  sha1 is modelled as a  *)
(* collision-free function of its input.                                   *)
(***************************************************************************)
JsonString(o) == IF Len(o) > 0 THEN "\"" \o o[1] \o "\"" ELSE "null"
JsonNumber(o) == IF Len(o) > 0 THEN ToString(o[1]) ELSE "null"

ItemJson(item) ==
    "{\"id\":" \o JsonString(item.id)
        \o ",\"label\":" \o JsonString(item.label)
        \o ",\"lat\":" \o ToString(item.lat)
        \o ",\"lon\":" \o ToString(item.lon)
        \o ",\"headsign\":" \o JsonString(item.headsign)
        \o ",\"directionId\":" \o JsonNumber(item.directionId) \o "}"

RECURSIVE JoinItems(_)
JoinItems(items) ==
    IF items = <<>> THEN ""
    ELSE IF Len(items) = 1 THEN ItemJson(items[1])
    ELSE ItemJson(Head(items)) \o "," \o JoinItems(Tail(items))

JSONstringify(items) == "[" \o JoinItems(items) \o "]"

sha1(payload) == "sha1(" \o payload \o ")"

\* a fingerprint of the content alone
computeEtag_ContentOnly(updatedAtMs, json) ==
    "\"" \o sha1(json) \o "\""

computeEtag(updatedAtMs, json) ==
    IF updatedAtMs = 0
    THEN "W/\"empty-" \o sha1(json) \o "\""
    ELSE "\"" \o ToString(updatedAtMs) \o "-" \o sha1(json) \o "\""

(***************************************************************************)
(* The cache: what a successful and a failed refresh write.                *)
(***************************************************************************)
NoError == "null"
NetworkError == "TypeError: fetch failed"
UpstreamStatusError == "Error: HTTP 502 Bad Gateway"
DecodeError == "Error: decode failed"
AbortError == "AbortError: Fetch aborted by timeout"
Errors == {NetworkError, UpstreamStatusError, DecodeError, AbortError}

Cache ==
    [vehicles |-> vehicles, vehiclesJson |-> vehiclesJson,
     vehiclesEtag |-> vehiclesEtag, lastUpdatedAtMs |-> lastUpdatedAtMs,
     lastUpdateError |-> lastUpdateError,
     consecutiveFailures |-> consecutiveFailures]

\* a commit that replaces the records and leaves the fingerprint for later
Commit_KeepsEtag(items, snapshotTimestamp) ==
    [vehicles |-> items,
     vehiclesJson |-> JSONstringify(items),
     vehiclesEtag |-> vehiclesEtag,
     lastUpdatedAtMs |-> snapshotTimestamp,
     lastUpdateError |-> NoError,
     consecutiveFailures |-> 0]

\* a commit that leaves the failure state of the refreshes before it
Commit_KeepsFailureState(items, snapshotTimestamp) ==
    [vehicles |-> items,
     vehiclesJson |-> JSONstringify(items),
     vehiclesEtag |-> computeEtag(snapshotTimestamp, JSONstringify(items)),
     lastUpdatedAtMs |-> snapshotTimestamp,
     lastUpdateError |-> lastUpdateError,
     consecutiveFailures |-> consecutiveFailures]

\* a commit that clears the error and leaves the failure count
Commit_KeepsFailureCount(items, snapshotTimestamp) ==
    [vehicles |-> items,
     vehiclesJson |-> JSONstringify(items),
     vehiclesEtag |-> computeEtag(snapshotTimestamp, JSONstringify(items)),
     lastUpdatedAtMs |-> snapshotTimestamp,
     lastUpdateError |-> NoError,
     consecutiveFailures |-> consecutiveFailures]

\* lines 167-173: the try block after a successful decode
Commit(items, snapshotTimestamp) ==
    [vehicles |-> items,
     vehiclesJson |-> JSONstringify(items),
     vehiclesEtag |-> computeEtag(snapshotTimestamp, JSONstringify(items)),
     lastUpdatedAtMs |-> snapshotTimestamp,
     lastUpdateError |-> NoError,
     consecutiveFailures |-> 0]

\* a catch block that drops the snapshot it could not replace
RecordFailure_DropsSnapshot(cache, err) ==
    [cache EXCEPT !.vehicles = <<>>,
                  !.vehiclesJson = "[]",
                  !.lastUpdateError = err,
                  !.consecutiveFailures = cache.consecutiveFailures + 1]

\* a catch block that forgets that the cache was ever updated
RecordFailure_ForgetsUpdate(cache, err) ==
    [cache EXCEPT !.vehiclesEtag = computeEtag(0, cache.vehiclesJson),
                  !.lastUpdatedAtMs = 0,
                  !.lastUpdateError = err,
                  !.consecutiveFailures = cache.consecutiveFailures + 1]

\* a catch block that stores the error and forgets to count it
RecordFailure_Uncounted(cache, err) ==
    [cache EXCEPT !.lastUpdateError = err]

\* a catch block that resets the time of the last update
RecordFailure_ClearsUpdatedAt(cache, err) ==
    [cache EXCEPT !.lastUpdatedAtMs = 0,
                  !.lastUpdateError = err,
                  !.consecutiveFailures = cache.consecutiveFailures + 1]

\* lines 175-177: the catch block
RecordFailure(cache, err) ==
    [cache EXCEPT !.lastUpdateError = err,
                  !.consecutiveFailures = cache.consecutiveFailures + 1]

SetCache(cache) ==
    /\ vehicles' = cache.vehicles
    /\ vehiclesJson' = cache.vehiclesJson
    /\ vehiclesEtag' = cache.vehiclesEtag
    /\ lastUpdatedAtMs' = cache.lastUpdatedAtMs
    /\ lastUpdateError' = cache.lastUpdateError
    /\ consecutiveFailures' = cache.consecutiveFailures

(***************************************************************************)
(* Tasks, promises and timers.                                             *)
(***************************************************************************)
StartTask == "start"
TimerTask == "timer"
ReqTask(i) == "req" \o ToString(i)
Requests == {ReqTask(i) : i \in 1..MaxRequests}
Tasks == {StartTask, TimerTask} \cup Requests

Updates == 1..MaxUpdates
\* stopped: the tasks that were waiting for the refresh when stop() was called
FreeUpdate == [state |-> "free", timeoutAt |-> 0, returned |-> {}, stopped |-> {}]
Pending == {"fetching", "reading"}
Settled == {"fulfilled", "rejected"}

NoTimer == [due |-> 0, delay |-> 0]

\* what a call of refresh() hands back: undefined, an exception, or an array
Undefined == [kind |-> "undefined"]
Threw == [kind |-> "threw"]
Array(items) == [kind |-> "array", items |-> items]

NoRequest == [ifNoneMatch |-> <<>>]
NoResponse == [status |-> 0]
NoHealth == [status |-> 0]

\* the current turn is not over: a promise has settled and its reactions are
\* running, or a handler has just answered.  No macrotask runs before it is.
MicrotasksPending ==
    \/ \E t \in Tasks : awaiting[t] # 0 /\ updates[awaiting[t]].state \in Settled
    \/ \E p \in Updates : updates[p].state \in Settled /\ inFlightUpdate # p
    \/ \E r \in Requests : pc[r] = "done"
    \/ health # NoHealth

\* the reactions of a promise run in the order they were registered, and the
\* call that created the promise registered first
CanResume(t) ==
    /\ awaiting[t] # 0
    /\ updates[awaiting[t]].state \in Settled
    /\ \/ role[t] = "starter"
       \/ ~\E s \in Tasks : awaiting[s] = awaiting[t] /\ role[s] = "starter"

Init ==
    /\ env = <<>>
    /\ options \in OptionSets
    /\ now = StartMs
    /\ vehicles = <<>>
    /\ vehiclesJson = "[]"
    /\ vehiclesEtag = computeEtag(0, "[]")
    /\ lastUpdatedAtMs = 0
    /\ lastUpdateError = NoError
    /\ consecutiveFailures = 0
    /\ inFlightUpdate = 0
    /\ updates = [p \in Updates |-> FreeUpdate]
    /\ refreshTimer = NoTimer
    /\ timers = {}
    /\ hasStopped = FALSE
    /\ httpServer = FALSE
    /\ fetchCalls = 0
    /\ pc = [t \in Tasks |-> "idle"]
    /\ awaiting = [t \in Tasks |-> 0]
    /\ role = [t \in Tasks |-> "none"]
    /\ req = [r \in Requests |-> NoRequest]
    /\ resp = [r \in Requests |-> NoResponse]
    /\ health = NoHealth

(***************************************************************************)
(* refresh(): the part that runs in the caller's turn (lines 103-113, up   *)
(* to the await of fetchImpl).                                             *)
(***************************************************************************)
\* refresh() without its guard: every call issues a fetch of its own
JoinsInFlight_Never == FALSE

\* line 104: if (inFlightUpdate) return inFlightUpdate
JoinsInFlight == inFlightUpdate # 0

CanCallRefresh ==
    JoinsInFlight \/ (fetchCalls < MaxFetches /\ \E p \in Updates : updates[p].state = "free")

NewUpdate == CHOOSE p \in Updates :
    updates[p].state = "free" /\ \A q \in Updates : updates[q].state = "free" => p <= q

refresh(t) ==
    /\ IF JoinsInFlight
       THEN /\ awaiting' = [awaiting EXCEPT ![t] = inFlightUpdate]
            /\ role' = [role EXCEPT ![t] = "joiner"]
            /\ UNCHANGED <<inFlightUpdate, updates, fetchCalls>>
       ELSE /\ updates' = [updates EXCEPT ![NewUpdate] =
                              [state |-> "fetching", timeoutAt |-> now + fetchTimeoutMs,
                               returned |-> {}, stopped |-> {}]]
            /\ fetchCalls' = fetchCalls + 1
            /\ inFlightUpdate' = NewUpdate
            /\ awaiting' = [awaiting EXCEPT ![t] = NewUpdate]
            /\ role' = [role EXCEPT ![t] = "starter"]

(***************************************************************************)
(* The body of the in-flight update (lines 113-184) after each await.      *)
(***************************************************************************)
\* the try block ran to its end
RefreshSucceeds(items) ==
    [cache |-> Commit(items, now), state |-> "fulfilled"]
\* an update without its catch block: the error rejects the promise
RefreshFails_Uncaught(err) ==
    [cache |-> Cache, state |-> "rejected"]

\* something threw: the catch block
RefreshFails(err) ==
    [cache |-> RecordFailure(Cache, err), state |-> "fulfilled"]

Settle(p, outcome) ==
    /\ SetCache(outcome.cache)
    /\ updates' = [updates EXCEPT ![p].state = outcome.state, ![p].timeoutAt = 0]
    /\ UNCHANGED <<env, options, health, now, inFlightUpdate, refreshTimer, timers, hasStopped,
                   httpServer, fetchCalls, pc, awaiting, role, req, resp>>

\* fetchImpl rejects: a network failure
FetchRejects(p) ==
    /\ ~MicrotasksPending
    /\ updates[p].state = "fetching"
    /\ Settle(p, RefreshFails(NetworkError))

\* fetchImpl resolves with a response
FetchResponds(p, ok) ==
    /\ ~MicrotasksPending
    /\ updates[p].state = "fetching"
    /\ IF ok
       THEN /\ updates' = [updates EXCEPT ![p].state = "reading"]
            /\ UNCHANGED <<env, options, health, now, cacheVars, inFlightUpdate, refreshTimer,
                           timers, hasStopped, httpServer, fetchCalls, pc, awaiting,
                           role, req, resp>>
       ELSE Settle(p, RefreshFails(UpstreamStatusError))

\* response.arrayBuffer() resolves: decode, then commit or fail
BodyArrives(p, payload) ==
    /\ ~MicrotasksPending
    /\ updates[p].state = "reading"
    /\ Settle(p, IF payload.decodes
                 THEN RefreshSucceeds(DecodeItems(payload.entity))
                 ELSE RefreshFails(DecodeError))

\* response.arrayBuffer() rejects
BodyRejects(p) ==
    /\ ~MicrotasksPending
    /\ updates[p].state = "reading"
    /\ Settle(p, RefreshFails(NetworkError))

\* the fetch timeout fires: controller.abort() makes the pending await reject
FetchTimesOut(p) ==
    /\ ~MicrotasksPending
    /\ updates[p].state \in Pending
    /\ updates[p].timeoutAt # 0
    /\ now >= updates[p].timeoutAt
    /\ Settle(p, RefreshFails(AbortError))

(***************************************************************************)
(* refresh(): what runs when the awaited promise has settled (lines        *)
(* 187-192 for the call that created it, line 104 for a call that found it *)
(* in flight), and ensureLatest's own await (lines 210-215).               *)
(***************************************************************************)
\* line 192: return vehicles
StarterResult == Array(vehicles)
\* line 104: the caller is handed the update's promise, which resolves to the
\* value of an async function with no return statement
JoinerResult == Undefined

\* refresh() without its finally: the marker outlives the refresh
InFlightAfter_Kept(r) == inFlightUpdate

\* lines 187-191: the finally of the call that created the promise
InFlightAfter(r) == IF r = "starter" THEN 0 ELSE inFlightUpdate

\* what the await hands the task: the result of its call of refresh(), or for
\* ensureLatest's own await nothing it uses
Returned(t) ==
    IF updates[awaiting[t]].state = "rejected" THEN Threw
    ELSE IF role[t] = "starter" THEN StarterResult
    ELSE IF role[t] = "joiner" THEN JoinerResult
    ELSE Undefined

\* ensureLatest swallows a rejection of the promise it awaits itself (lines
\* 211-215); one of refresh() passes through it
EnsureLatestThrows(t) == role[t] # "waiter" /\ Returned(t) = Threw

Resume(t) ==
    /\ inFlightUpdate' = InFlightAfter(role[t])
    /\ awaiting' = [awaiting EXCEPT ![t] = 0]
    /\ role' = [role EXCEPT ![t] = "none"]
    /\ updates' = [updates EXCEPT ![awaiting[t]].returned =
                      IF role[t] = "waiter" THEN @ ELSE @ \cup {Returned(t)}]

(***************************************************************************)
(* scheduleNextRefresh (lines 195-207).                                    *)
(***************************************************************************)
\* an exponent one too high
BackoffMultiplier_OffByOne(failures) ==
    Min(Pow2(Max(0, failures)), MAX_BACKOFF_MULTIPLIER)

\* a multiplier that wraps around at its maximum instead of saturating
BackoffMultiplier_Wraps(failures) ==
    Pow2(Max(0, failures - 1)) % (2 * MAX_BACKOFF_MULTIPLIER)

\* the exponent alone, with no maximum multiplier
BackoffMultiplier_Uncapped(failures) ==
    Pow2(Max(0, failures - 1))

BackoffMultiplier(failures) ==
    Min(Pow2(Max(0, failures - 1)), MAX_BACKOFF_MULTIPLIER)

Delay(failures) ==
    Min(refreshIntervalMs * BackoffMultiplier(failures), maxBackoffMs)

Timeout(delay) == [due |-> now + delay, delay |-> delay]

\* a scheduler that gives up after a failed refresh
scheduleNextRefresh_OnlyAfterSuccess(stopped) ==
    IF stopped \/ lastUpdateError # NoError
    THEN UNCHANGED <<refreshTimer, timers>>
    ELSE /\ refreshTimer' = Timeout(Delay(consecutiveFailures))
         /\ timers' = (timers \ {refreshTimer}) \cup {Timeout(Delay(consecutiveFailures))}

scheduleNextRefresh(stopped) ==
    IF stopped
    THEN UNCHANGED <<refreshTimer, timers>>
    ELSE /\ refreshTimer' = Timeout(Delay(consecutiveFailures))
         /\ timers' = (timers \ {refreshTimer}) \cup {Timeout(Delay(consecutiveFailures))}

\* a periodic timer: the next tick is queued when the timer fires
TimerFires_Interval(tm) ==
    /\ ~MicrotasksPending
    /\ tm \in timers
    /\ now >= tm.due
    /\ pc[TimerTask] = "idle"
    /\ CanCallRefresh
    /\ timers' = (timers \ {tm}) \cup {Timeout(tm.delay)}
    /\ refresh(TimerTask)
    /\ pc' = [pc EXCEPT ![TimerTask] = "await_refresh"]
    /\ UNCHANGED <<env, options, health, now, cacheVars, refreshTimer, hasStopped, httpServer,
                   req, resp>>

\* the timer fires: the callback calls refresh() and awaits it
TimerFires(tm) ==
    /\ ~MicrotasksPending
    /\ tm \in timers
    /\ now >= tm.due
    /\ pc[TimerTask] = "idle"
    /\ CanCallRefresh
    /\ timers' = timers \ {tm}
    /\ refresh(TimerTask)
    /\ pc' = [pc EXCEPT ![TimerTask] = "await_refresh"]
    /\ UNCHANGED <<env, options, health, now, cacheVars, refreshTimer, hasStopped, httpServer,
                   req, resp>>

\* refresh() has returned to the timer callback: scheduleNextRefresh()
TimerResumes ==
    /\ pc[TimerTask] = "await_refresh"
    /\ CanResume(TimerTask)
    /\ Resume(TimerTask)
    /\ IF Returned(TimerTask) = Threw
       THEN /\ pc' = [pc EXCEPT ![TimerTask] = "threw"]
            /\ UNCHANGED <<refreshTimer, timers>>
       ELSE /\ pc' = [pc EXCEPT ![TimerTask] = "idle"]
            /\ scheduleNextRefresh(hasStopped)
    /\ UNCHANGED <<env, options, health, now, cacheVars, hasStopped, httpServer, fetchCalls,
                   req, resp>>

(***************************************************************************)
(* start() and stop() (lines 279-305).                                     *)
(***************************************************************************)
StartCalled ==
    /\ ~MicrotasksPending
    /\ pc[StartTask] = "idle"
    /\ ~httpServer
    /\ CanCallRefresh
    /\ refresh(StartTask)
    /\ pc' = [pc EXCEPT ![StartTask] = "await_refresh"]
    /\ UNCHANGED <<env, options, health, now, cacheVars, refreshTimer, timers, hasStopped,
                   httpServer, req, resp>>

\* refresh() has returned: hasStopped = false, scheduleNextRefresh(), listen
StartResumes ==
    /\ pc[StartTask] = "await_refresh"
    /\ CanResume(StartTask)
    /\ Resume(StartTask)
    /\ IF Returned(StartTask) = Threw
       THEN /\ pc' = [pc EXCEPT ![StartTask] = "threw"]
            /\ UNCHANGED <<refreshTimer, timers, hasStopped>>
       ELSE /\ pc' = [pc EXCEPT ![StartTask] = "await_listening"]
            /\ hasStopped' = FALSE
            /\ scheduleNextRefresh(FALSE)
    /\ UNCHANGED <<env, options, health, now, cacheVars, httpServer, fetchCalls, req, resp>>

\* a start() that listens without waiting for its refresh
StartListening_BeforeRefresh ==
    /\ ~MicrotasksPending
    /\ pc[StartTask] \in {"await_refresh", "await_listening"}
    /\ httpServer' = TRUE
    /\ pc' = [pc EXCEPT ![StartTask] =
                  IF pc[StartTask] = "await_listening" THEN "idle" ELSE @]
    /\ UNCHANGED <<env, options, health, now, cacheVars, inFlightUpdate,
                   updates, refreshTimer, timers, hasStopped, fetchCalls, awaiting,
                   role, req, resp>>

\* the 'listening' event
StartListening ==
    /\ ~MicrotasksPending
    /\ pc[StartTask] = "await_listening"
    /\ httpServer' = TRUE
    /\ pc' = [pc EXCEPT ![StartTask] = "idle"]
    /\ UNCHANGED <<env, options, health, now, cacheVars, inFlightUpdate, updates, refreshTimer,
                   timers, hasStopped, fetchCalls, awaiting, role, req, resp>>

\* a stop() that drops the timer handle without cancelling the timer
Stop_ForgetsTimer ==
    /\ ~MicrotasksPending
    /\ hasStopped' = TRUE
    /\ timers' = timers
    /\ refreshTimer' = NoTimer
    /\ httpServer' = FALSE
    /\ updates' = [p \in Updates |->
                      IF updates[p].state \in Pending
                      THEN [updates[p] EXCEPT
                                !.stopped = @ \cup {t \in Tasks : awaiting[t] = p}]
                      ELSE updates[p]]
    /\ UNCHANGED <<env, options, health, now, cacheVars, inFlightUpdate,
                   fetchCalls, pc, awaiting, role, req, resp>>

\* stop(): the server stops accepting connections as soon as close() is called
Stop ==
    /\ ~MicrotasksPending
    /\ hasStopped' = TRUE
    /\ timers' = timers \ {refreshTimer}
    /\ refreshTimer' = NoTimer
    /\ httpServer' = FALSE
    /\ updates' = [p \in Updates |->
                      IF updates[p].state \in Pending
                      THEN [updates[p] EXCEPT
                                !.stopped = @ \cup {t \in Tasks : awaiting[t] = p}]
                      ELSE updates[p]]
    /\ UNCHANGED <<env, options, health, now, cacheVars, inFlightUpdate,
                   fetchCalls, pc, awaiting, role, req, resp>>

(***************************************************************************)
(* GET /positions (lines 221-251) and ensureLatest (lines 209-219).        *)
(***************************************************************************)
\* line 233
StalenessMs == IF lastUpdatedAtMs # 0 THEN <<now - lastUpdatedAtMs>> ELSE <<>>

\* line 237
IsStale(stalenessMs) == Given(stalenessMs) /\ stalenessMs[1] > staleAfterMs

\* line 240: Math.ceil(refreshIntervalMs / 1000)
RetryAfterSeconds == (refreshIntervalMs + 999) \div 1000

\* a handler that answers a matching validator before it looks at staleness
Response_NotModifiedFirst(request) ==
    LET etag == vehiclesEtag
        isStale == IsStale(StalenessMs)
        notModified == request.ifNoneMatch = <<etag>>
    IN  [status |-> IF notModified THEN 304 ELSE IF isStale THEN 503 ELSE 200,
         etag |-> etag,
         updatedAt |-> IF lastUpdatedAtMs # 0 THEN <<lastUpdatedAtMs>> ELSE <<>>,
         error |-> IF lastUpdateError # NoError THEN <<lastUpdateError>> ELSE <<>>,
         stalenessMs |-> StalenessMs,
         stale |-> isStale,
         retryAfter |-> IF isStale THEN <<RetryAfterSeconds>> ELSE <<>>,
         warning |-> IF isStale THEN <<staleAfterMs>> ELSE <<>>,
         body |-> IF notModified THEN "" ELSE vehiclesJson]

\* the response of the handler once ensureLatest() has returned
Response(request) ==
    LET etag == vehiclesEtag
        isStale == IsStale(StalenessMs)
        notModified == ~isStale /\ request.ifNoneMatch = <<etag>>
    IN  [status |-> IF notModified THEN 304 ELSE IF isStale THEN 503 ELSE 200,
         etag |-> etag,
         updatedAt |-> IF lastUpdatedAtMs # 0 THEN <<lastUpdatedAtMs>> ELSE <<>>,
         error |-> IF lastUpdateError # NoError THEN <<lastUpdateError>> ELSE <<>>,
         stalenessMs |-> StalenessMs,
         stale |-> isStale,
         retryAfter |-> IF isStale THEN <<RetryAfterSeconds>> ELSE <<>>,
         warning |-> IF isStale THEN <<staleAfterMs>> ELSE <<>>,
         body |-> IF notModified THEN "" ELSE vehiclesJson]

\* the handler's promise rejected: the handler itself sends nothing (Express
\* answers for it, or the rejection goes unhandled)
Failure == [status |-> 500, body |-> "Internal Server Error"]

\* an ensureLatest that never waits for the refresh in flight
WaitsForInFlight_Never == FALSE

\* line 210: if (inFlightUpdate), ensureLatest awaits it
WaitsForInFlight == inFlightUpdate # 0

\* line 216: ensureLatest calls refresh() when nothing is cached
NeedsRefresh == Len(vehicles) = 0

\* the If-None-Match of a request: none, or the ETag the client was last given
Validators == {<<>>, <<vehiclesEtag>>}

RequestArrives(r, validator) ==
    /\ ~MicrotasksPending
    /\ httpServer
    /\ pc[r] = "idle"
    /\ \A i \in 1..MaxRequests : r = ReqTask(i) =>
           \A j \in 1..(i - 1) : pc[ReqTask(j)] # "idle"
    /\ req' = [req EXCEPT ![r] = [ifNoneMatch |-> validator]]
    /\ IF WaitsForInFlight
       THEN /\ pc' = [pc EXCEPT ![r] = "await_inflight"]
            /\ awaiting' = [awaiting EXCEPT ![r] = inFlightUpdate]
            /\ role' = [role EXCEPT ![r] = "waiter"]
            /\ UNCHANGED <<inFlightUpdate, updates, fetchCalls, resp>>
       ELSE IF NeedsRefresh
       THEN /\ CanCallRefresh
            /\ refresh(r)
            /\ pc' = [pc EXCEPT ![r] = "await_refresh"]
            /\ UNCHANGED resp
       ELSE /\ pc' = [pc EXCEPT ![r] = "done"]
            /\ resp' = [resp EXCEPT ![r] = Response(req'[r])]
            /\ UNCHANGED <<inFlightUpdate, updates, fetchCalls, awaiting, role>>
    /\ UNCHANGED <<env, options, health, now, cacheVars, refreshTimer, timers, hasStopped,
                   httpServer>>

\* ensureLatest() has returned to the handler, which answers
RequestResumes(r) ==
    /\ pc[r] \in {"await_inflight", "await_refresh"}
    /\ CanResume(r)
    /\ Resume(r)
    /\ pc' = [pc EXCEPT ![r] = "done"]
    /\ resp' = [resp EXCEPT ![r] =
                   IF EnsureLatestThrows(r) THEN Failure ELSE Response(req[r])]
    /\ UNCHANGED <<env, options, health, now, cacheVars, refreshTimer, timers, hasStopped,
                   httpServer, fetchCalls, req>>

(***************************************************************************)
(* GET /healthz (lines 259-277): answered in the turn it arrives in.       *)
(***************************************************************************)
\* a /healthz that reports the last error only
Healthz_IgnoresStaleness ==
    LET stalenessMs == StalenessMs
        feedIsStale == Given(stalenessMs) /\ stalenessMs[1] > staleAfterMs
        hadError == lastUpdateError # NoError
        statusOk == ~hadError
    IN  [status |-> IF statusOk THEN 200 ELSE 503,
         ok |-> statusOk,
         refreshIntervalMs |-> refreshIntervalMs,
         staleAfterMs |-> staleAfterMs,
         lastUpdatedAt |-> IF lastUpdatedAtMs # 0 THEN <<lastUpdatedAtMs>> ELSE <<>>,
         stalenessMs |-> stalenessMs,
         consecutiveFailures |-> consecutiveFailures,
         lastError |-> IF hadError THEN <<lastUpdateError>> ELSE <<>>]

\* a /healthz that reports staleness only
Healthz_IgnoresError ==
    LET stalenessMs == StalenessMs
        feedIsStale == Given(stalenessMs) /\ stalenessMs[1] > staleAfterMs
        hadError == lastUpdateError # NoError
        statusOk == ~feedIsStale
    IN  [status |-> IF statusOk THEN 200 ELSE 503,
         ok |-> statusOk,
         refreshIntervalMs |-> refreshIntervalMs,
         staleAfterMs |-> staleAfterMs,
         lastUpdatedAt |-> IF lastUpdatedAtMs # 0 THEN <<lastUpdatedAtMs>> ELSE <<>>,
         stalenessMs |-> stalenessMs,
         consecutiveFailures |-> consecutiveFailures,
         lastError |-> IF hadError THEN <<lastUpdateError>> ELSE <<>>]

Healthz ==
    LET stalenessMs == StalenessMs
        feedIsStale == Given(stalenessMs) /\ stalenessMs[1] > staleAfterMs
        hadError == lastUpdateError # NoError
        statusOk == ~hadError /\ ~feedIsStale
    IN  [status |-> IF statusOk THEN 200 ELSE 503,
         ok |-> statusOk,
         refreshIntervalMs |-> refreshIntervalMs,
         staleAfterMs |-> staleAfterMs,
         lastUpdatedAt |-> IF lastUpdatedAtMs # 0 THEN <<lastUpdatedAtMs>> ELSE <<>>,
         stalenessMs |-> stalenessMs,
         consecutiveFailures |-> consecutiveFailures,
         lastError |-> IF hadError THEN <<lastUpdateError>> ELSE <<>>]

\* line 318: the isStale that getState() reports
GetStateIsStale ==
    IF lastUpdatedAtMs # 0 THEN now - lastUpdatedAtMs > staleAfterMs ELSE TRUE

HealthzArrives ==
    /\ ~MicrotasksPending
    /\ httpServer
    /\ health' = Healthz
    /\ UNCHANGED <<env, options, now, cacheVars, inFlightUpdate, updates,
                   refreshTimer, timers, hasStopped, httpServer, fetchCalls, pc,
                   awaiting, role, req, resp>>

\* the turn is over: every reaction has run.  The responses are on the wire,
\* their handlers are gone, and nothing refers to the settled promises.
TurnEnds ==
    /\ MicrotasksPending
    /\ ~\E t \in Tasks : CanResume(t)
    /\ pc' = [t \in Tasks |-> IF pc[t] = "done" THEN "idle" ELSE pc[t]]
    /\ req' = [r \in Requests |-> IF pc[r] = "done" THEN NoRequest ELSE req[r]]
    /\ resp' = [r \in Requests |-> IF pc[r] = "done" THEN NoResponse ELSE resp[r]]
    /\ updates' = [p \in Updates |->
                      IF updates[p].state \in Settled /\ inFlightUpdate # p
                      THEN FreeUpdate ELSE updates[p]]
    /\ health' = NoHealth
    /\ UNCHANGED <<env, options, now, cacheVars, inFlightUpdate,
                   refreshTimer, timers, hasStopped, httpServer, fetchCalls,
                   awaiting, role>>

(***************************************************************************)
(* The clock.                                                              *)
(***************************************************************************)
\* 25 ms as the staleness test waits; longer than any staleness threshold of
\* StaleTestOptions
TickSteps == {25, 30000}
Elapsed == now - StartMs
Ticks == (Elapsed \div 30000) + ((Elapsed % 30000) \div 25)

Tick(d) ==
    /\ ~MicrotasksPending
    /\ Ticks < MaxTicks
    /\ now' = now + d
    /\ UNCHANGED <<env, options, health, cacheVars, inFlightUpdate, updates, refreshTimer, timers,
                   hasStopped, httpServer, fetchCalls, pc, awaiting, role, req,
                   resp>>

Next ==
    \/ \E p \in Updates : FetchRejects(p)
    \/ \E p \in Updates, ok \in BOOLEAN : FetchResponds(p, ok)
    \/ \E p \in Updates, payload \in Payloads : BodyArrives(p, payload)
    \/ \E p \in Updates : BodyRejects(p)
    \/ \E p \in Updates : FetchTimesOut(p)
    \/ \E tm \in timers : TimerFires(tm)
    \/ TimerResumes
    \/ StartCalled
    \/ StartResumes
    \/ StartListening
    \/ Stop
    \/ \E r \in Requests, validator \in Validators : RequestArrives(r, validator)
    \/ \E r \in Requests : RequestResumes(r)
    \/ HealthzArrives
    \/ TurnEnds
    \/ \E d \in TickSteps : Tick(d)

Spec == Init /\ [][Next]_vars

\* the reactions of a settled promise always run, and so does the end of a turn
LiveSpec ==
    /\ Spec
    /\ WF_vars(TimerResumes)
    /\ WF_vars(StartResumes)
    /\ WF_vars(\E r \in Requests : RequestResumes(r))
    /\ WF_vars(TurnEnds)

(***************************************************************************)
(* The backoff schedule on its own: start()'s refresh ends, the timer is   *)
(* armed, it fires when due, the refresh of the callback fails and the     *)
(* callback arms the next timer, over a range of configurations and up to  *)
(* MaxFailures failures in a row.                                          *)
(***************************************************************************)
\* consecutive failures followed
MaxFailures == 7

BackoffIntervals == {<<>>, <<1000>>, <<5000>>, <<10000>>, <<60000>>}
BackoffCeilings == {<<>>, <<1000>>, <<20000>>, <<100000>>, <<2000000>>}
BackoffOptionSets ==
    {[refreshIntervalMs |-> i, staleAfterMs |-> <<>>, fetchTimeoutMs |-> <<>>,
      maxBackoffMs |-> c] : i \in BackoffIntervals, c \in BackoffCeilings}

BackoffInit ==
    /\ env = <<>>
    /\ options \in BackoffOptionSets
    /\ now = StartMs
    /\ vehicles = <<>>
    /\ vehiclesJson = "[]"
    /\ vehiclesEtag = computeEtag(0, "[]")
    /\ lastUpdatedAtMs = 0
    /\ lastUpdateError = NoError
    /\ consecutiveFailures = 0
    /\ inFlightUpdate = 0
    /\ updates = [p \in Updates |-> FreeUpdate]
    /\ refreshTimer = NoTimer
    /\ timers = {}
    /\ hasStopped = FALSE
    /\ httpServer = FALSE
    /\ fetchCalls = 0
    /\ pc = [t \in Tasks |-> "idle"]
    /\ awaiting = [t \in Tasks |-> 0]
    /\ role = [t \in Tasks |-> "none"]
    /\ req = [r \in Requests |-> NoRequest]
    /\ resp = [r \in Requests |-> NoResponse]
    /\ health = NoHealth

\* start(): its refresh has ended, in a commit or in a failure
BackoffStartRefreshEnds(ok) ==
    /\ pc[StartTask] = "idle"
    /\ refreshTimer = NoTimer
    /\ SetCache(IF ok THEN Commit(DecodeItems(TestFeed), now)
                      ELSE RecordFailure(Cache, NetworkError))
    /\ pc' = [pc EXCEPT ![StartTask] = "scheduling"]
    /\ UNCHANGED <<env, options, health, now, inFlightUpdate, updates,
                   refreshTimer, timers, hasStopped, httpServer, fetchCalls,
                   awaiting, role, req, resp>>

\* the refresh of the timer callback has ended in a failure
BackoffRefreshFails ==
    /\ pc[TimerTask] = "await_refresh"
    /\ SetCache(RecordFailure(Cache, NetworkError))
    /\ pc' = [pc EXCEPT ![TimerTask] = "scheduling"]
    /\ UNCHANGED <<env, options, health, now, inFlightUpdate, updates,
                   refreshTimer, timers, hasStopped, httpServer, fetchCalls,
                   awaiting, role, req, resp>>

\* start() or the timer callback calls scheduleNextRefresh()
BackoffSchedules(t) ==
    /\ pc[t] = "scheduling"
    /\ scheduleNextRefresh(hasStopped)
    /\ pc' = [pc EXCEPT ![t] = "idle"]
    /\ UNCHANGED <<env, options, health, now, cacheVars, inFlightUpdate,
                   updates, hasStopped, httpServer, fetchCalls, awaiting, role,
                   req, resp>>

\* the armed timer fires when it is due
BackoffTimerFires(tm) ==
    /\ tm \in timers
    /\ pc[TimerTask] = "idle"
    /\ consecutiveFailures < MaxFailures
    /\ timers' = timers \ {tm}
    /\ now' = tm.due
    /\ pc' = [pc EXCEPT ![TimerTask] = "await_refresh"]
    /\ UNCHANGED <<env, options, health, cacheVars, inFlightUpdate,
                   updates, refreshTimer, hasStopped, httpServer, fetchCalls,
                   awaiting, role, req, resp>>

BackoffNext ==
    \/ \E ok \in BOOLEAN : BackoffStartRefreshEnds(ok)
    \/ BackoffRefreshFails
    \/ \E t \in {StartTask, TimerTask} : BackoffSchedules(t)
    \/ \E tm \in timers : BackoffTimerFires(tm)

BackoffSpec == BackoffInit /\ [][BackoffNext]_vars

\* the timer that scheduleNextRefresh() armed last is still to fire
Armed == refreshTimer \in timers

(***************************************************************************)
(* The decode loop on its own: start() fetches, the body that arrives      *)
(* decodes to a feed of up to MaxEntities entities, the loop commits its   *)
(* records, and start() arms the timer and listens.                        *)
(***************************************************************************)
\* entities in one feed
MaxEntities == 2

\* the entities of a feed: with and without a vehicle, a position, each
\* coordinate, a trip, a label, a headsign and a direction
DecodeEntities ==
    {Entity("e-0", <<>>),
     Entity("e-1", <<Vehicle(<<"veh-1">>, <<>>)>>),
     Entity("e-2", <<Vehicle(<<"veh-2">>, <<Position(<<>>, <<19>>)>>)>>),
     Entity("e-3", <<Vehicle(<<"veh-3">>, <<Position(<<51>>, <<>>)>>)>>),
     Entity("e-4",
            <<VehiclePosition(<<Trip(<<>>, <<>>, <<0>>, <<>>)>>,
                              <<Descriptor(<<"veh-4">>, <<"12-Lagiewnicka">>)>>,
                              <<Position(<<0>>, <<0>>)>>, <<>>)>>),
     Entity("e-5",
            <<VehiclePosition(<<Trip(<<"Centrum">>, <<>>, <<>>, <<1>>)>>,
                              <<Descriptor(<<"veh-5">>, <<"12-Lagiewnicka">>)>>,
                              <<Position(<<51>>, <<19>>)>>, <<>>)>>),
     Entity("e-6",
            <<VehiclePosition(<<Trip(<<>>, <<>>, <<>>, <<>>)>>,
                              <<Descriptor(<<"veh-6">>, <<"10">>)>>,
                              <<Position(<<51>>, <<0>>)>>, <<>>)>>),
     Entity("e-7", <<Vehicle(<<"veh-7">>, <<Position(<<52>>, <<20>>)>>)>>),
     Entity("e-8",
            <<VehiclePosition(<<Trip(<<"">>, <<>>, <<>>, <<0>>)>>,
                              <<Descriptor(<<>>, <<" 7 ~> Dworzec ">>)>>,
                              <<Position(<<51>>, <<19>>)>>, <<"">>)>>),
     Entity("e-9",
            <<VehiclePosition(<<Trip(<<>>, <<"Plac Wolnosci">>, <<1>>, <<0>>)>>,
                              <<Descriptor(<<"veh-9">>, <<"3--">>)>>,
                              <<Position(<<51>>, <<19>>)>>, <<" Retkinia ">>)>>)}

RECURSIVE DecodeFeedsOfLength(_)
DecodeFeedsOfLength(n) ==
    IF n = 0 THEN {<<>>}
    ELSE {<<e>> \o f : e \in DecodeEntities, f \in DecodeFeedsOfLength(n - 1)}

DecodeFeeds == UNION {DecodeFeedsOfLength(n) : n \in 0..MaxEntities}

DecodeInit ==
    /\ env = <<>>
    /\ options = DefaultOptions
    /\ now = StartMs
    /\ vehicles = <<>>
    /\ vehiclesJson = "[]"
    /\ vehiclesEtag = computeEtag(0, "[]")
    /\ lastUpdatedAtMs = 0
    /\ lastUpdateError = NoError
    /\ consecutiveFailures = 0
    /\ inFlightUpdate = 0
    /\ updates = [p \in Updates |-> FreeUpdate]
    /\ refreshTimer = NoTimer
    /\ timers = {}
    /\ hasStopped = FALSE
    /\ httpServer = FALSE
    /\ fetchCalls = 0
    /\ pc = [t \in Tasks |-> "idle"]
    /\ awaiting = [t \in Tasks |-> 0]
    /\ role = [t \in Tasks |-> "none"]
    /\ req = [r \in Requests |-> NoRequest]
    /\ resp = [r \in Requests |-> NoResponse]
    /\ health = NoHealth

DecodeNext ==
    \/ StartCalled
    \/ \E p \in Updates : FetchResponds(p, TRUE)
    \/ \E p \in Updates, feed \in DecodeFeeds : BodyArrives(p, Decodable(feed))
    \/ StartResumes
    \/ TurnEnds
    \/ StartListening

DecodeSpec == DecodeInit /\ [][DecodeNext]_vars

(***************************************************************************)
(* The configuration on its own: createServer is handed options by a       *)
(* caller, or by main.js from the environment; start()'s refresh ends, the *)
(* timer is armed with the effective interval and backs off to the         *)
(* effective ceiling, and /healthz reports the effective interval and      *)
(* staleness threshold.                                                    *)
(***************************************************************************)
ConfigIntervals == {<<>>, <<-1>>, <<0>>, <<1000>>, <<3000>>, <<5000>>, <<60000>>, <<100000>>}
ConfigThresholds == {<<>>, <<0>>, <<10>>, <<15000>>, <<500000>>}
ConfigCeilings == {<<>>, <<0>>, <<5000>>, <<50000>>, <<1000000>>}

\* what a caller of createServer hands over
ConfigOptionSets ==
    {[refreshIntervalMs |-> i, staleAfterMs |-> s, fetchTimeoutMs |-> <<>>,
      maxBackoffMs |-> c] :
        i \in ConfigIntervals, s \in ConfigThresholds, c \in ConfigCeilings}

\* what main.js finds in process.env
Environments ==
    {[REFRESH_INTERVAL_MS |-> i, STALE_AFTER_MS |-> s, FETCH_TIMEOUT_MS |-> <<>>,
      MAX_BACKOFF_MS |-> c] :
        i \in ConfigIntervals, s \in ConfigThresholds, c \in ConfigCeilings}

ConfigInit ==
    /\ \/ env = <<>> /\ options \in ConfigOptionSets
       \/ \E e \in Environments : env = <<e>> /\ options = MainOptions(e)
    /\ now = StartMs
    /\ vehicles = <<>>
    /\ vehiclesJson = "[]"
    /\ vehiclesEtag = computeEtag(0, "[]")
    /\ lastUpdatedAtMs = 0
    /\ lastUpdateError = NoError
    /\ consecutiveFailures = 0
    /\ inFlightUpdate = 0
    /\ updates = [p \in Updates |-> FreeUpdate]
    /\ refreshTimer = NoTimer
    /\ timers = {}
    /\ hasStopped = FALSE
    /\ httpServer = FALSE
    /\ fetchCalls = 0
    /\ pc = [t \in Tasks |-> "idle"]
    /\ awaiting = [t \in Tasks |-> 0]
    /\ role = [t \in Tasks |-> "none"]
    /\ req = [r \in Requests |-> NoRequest]
    /\ resp = [r \in Requests |-> NoResponse]
    /\ health = NoHealth

\* start() has armed the first timer; it listens
ConfigListens ==
    /\ ~httpServer
    /\ refreshTimer # NoTimer
    /\ pc[StartTask] = "idle"
    /\ httpServer' = TRUE
    /\ UNCHANGED <<env, options, health, now, cacheVars, inFlightUpdate, updates,
                   refreshTimer, timers, hasStopped, fetchCalls, pc, awaiting,
                   role, req, resp>>

\* /healthz is asked when the schedule has run its course
ConfigHealthz ==
    /\ httpServer
    /\ health = NoHealth
    /\ \A t \in Tasks : pc[t] = "idle"
    /\ consecutiveFailures = MaxFailures \/ lastUpdatedAtMs # 0
    /\ health' = Healthz
    /\ UNCHANGED <<env, options, now, cacheVars, inFlightUpdate, updates,
                   refreshTimer, timers, hasStopped, httpServer, fetchCalls, pc,
                   awaiting, role, req, resp>>

ConfigNext ==
    \/ BackoffNext
    \/ ConfigListens
    \/ ConfigHealthz

ConfigSpec == ConfigInit /\ [][ConfigNext]_vars

\* the value configured for an option: the environment variable when main.js
\* built the options, the option itself otherwise
Configured(variable, option) ==
    IF env = <<>> THEN options[option] ELSE env[1][variable]

(***************************************************************************)
(* Steps and states the properties speak of.                               *)
(***************************************************************************)
FetchesInFlight == {p \in Updates : updates[p].state \in Pending}

\* task t starts to wait for a refresh in this step
BeginsToAwait(t) == awaiting[t] = 0 /\ awaiting'[t] # 0

\* the refresh of promise p ends in failure in this step, with error err
FailsWith(p, err) ==
    \/ err = NetworkError /\ (FetchRejects(p) \/ BodyRejects(p))
    \/ err = UpstreamStatusError /\ FetchResponds(p, FALSE)
    \/ err = DecodeError /\ BodyArrives(p, Malformed)
    \/ err = AbortError /\ FetchTimesOut(p)

\* the refresh of promise p ends in success in this step, having decoded feed
SucceedsWith(p, feed) == BodyArrives(p, Decodable(feed))

Answered(r) == pc[r] = "done"

(***************************************************************************)
(* C1: at most one upstream fetch is in flight at any moment, and a task   *)
(* that calls refresh() (or ensureLatest()) while a fetch is in flight     *)
(* issues no new fetch and waits on the promise of the one in flight.      *)
(***************************************************************************)
C1_SingleFlight ==
    /\ [](Cardinality(FetchesInFlight) <= 1)
    /\ [][\A t \in Tasks :
            (FetchesInFlight # {} /\ BeginsToAwait(t)) =>
                /\ fetchCalls' = fetchCalls
                /\ FetchesInFlight' = FetchesInFlight
                /\ awaiting'[t] \in FetchesInFlight]_vars

\* the timer's or start()'s call of refresh() has joined a fetch in flight
C1_Witness ==
    \E t \in Tasks : role[t] = "joiner" /\ awaiting[t] \in FetchesInFlight

(***************************************************************************)
(* C2: every call of refresh() that shares one in-flight refresh is handed *)
(* the same result as the call that started it.                            *)
(***************************************************************************)
C2_SameResult ==
    \A p \in Updates : Cardinality(updates[p].returned) <= 1

(***************************************************************************)
(* C3: once the refresh in flight has ended, whatever its outcome, the     *)
(* in-flight marker is eventually cleared, and a call of refresh() made    *)
(* when no fetch is in flight issues a new upstream fetch.                 *)
(***************************************************************************)
InFlightHasEnded ==
    inFlightUpdate # 0 /\ updates[inFlightUpdate].state \in Settled

C3_MarkerReleased ==
    /\ InFlightHasEnded ~> (inFlightUpdate = 0)
    /\ [][\A t \in Tasks :
            (FetchesInFlight = {} /\ BeginsToAwait(t)) =>
                /\ fetchCalls' = fetchCalls + 1
                /\ awaiting'[t] \in FetchesInFlight']_vars

\* a refresh timed out, the marker was cleared and the next fetch is in flight
C3_Witness ==
    /\ lastUpdateError = AbortError
    /\ inFlightUpdate # 0
    /\ updates[inFlightUpdate].state = "fetching"

(***************************************************************************)
(* C4: a refresh that fails leaves the cached records, their serialized    *)
(* form, the fingerprint and updatedAt as they were.                       *)
(***************************************************************************)
C4_FailureKeepsSnapshot ==
    [][\A p \in Updates, err \in Errors :
          FailsWith(p, err) =>
              UNCHANGED <<vehicles, vehiclesJson, vehiclesEtag, lastUpdatedAtMs>>]_vars

\* a handler serves the last good snapshot after a failed refresh
C4_Witness ==
    \E r \in Requests :
        /\ Answered(r)
        /\ resp[r].error # <<>>
        /\ vehicles # <<>>
        /\ resp[r].body = JSONstringify(vehicles)

(***************************************************************************)
(* C5: each failed refresh adds exactly 1 to consecutiveFailures and       *)
(* stores its error as lastError; the callers collapsed onto it add        *)
(* nothing when they resume.                                               *)
(***************************************************************************)
C5_FailureCountedOnce ==
    [][/\ \A p \in Updates, err \in Errors :
              FailsWith(p, err) =>
                  /\ consecutiveFailures' = consecutiveFailures + 1
                  /\ lastUpdateError' = err
       /\ (\A p \in Updates : updates'[p].state \in Settled => updates[p].state \in Settled)
              => UNCHANGED <<consecutiveFailures, lastUpdateError>>]_vars

\* a refresh has just failed with two callers waiting on it
C5_Witness ==
    \E p \in Updates :
        /\ updates[p].state = "fulfilled"
        /\ Cardinality({t \in Tasks : awaiting[t] = p}) >= 2
        /\ consecutiveFailures = 2
        /\ lastUpdateError # NoError

(***************************************************************************)
(* C6: each successful refresh replaces records, serialized form and       *)
(* fingerprint by the newly decoded data, stamps updatedAt with the commit *)
(* instant, clears lastError and resets consecutiveFailures to 0.          *)
(***************************************************************************)
C6_SuccessCommits ==
    [][\A p \in Updates, feed \in Feeds :
          SucceedsWith(p, feed) =>
              /\ vehicles' = DecodeItems(feed)
              /\ vehiclesJson' = JSONstringify(DecodeItems(feed))
              /\ vehiclesEtag' = computeEtag(now, JSONstringify(DecodeItems(feed)))
              /\ lastUpdatedAtMs' = now
              /\ lastUpdateError' = NoError
              /\ consecutiveFailures' = 0]_vars

\* the second refresh of a run has just succeeded, later than the first
C6_Witness ==
    \E p \in Updates :
        /\ updates[p].state = "fulfilled"
        /\ lastUpdatedAtMs = now
        /\ vehicles # <<>>
        /\ lastUpdateError = NoError
        /\ consecutiveFailures = 0
        /\ refreshTimer # NoTimer
        /\ fetchCalls = 2
        /\ lastUpdatedAtMs > StartMs

(***************************************************************************)
(* C7: refresh errors never reach a handler as a failure.  Whatever the    *)
(* upstream does, the promise of a refresh is fulfilled, no caller of      *)
(* refresh() or ensureLatest() sees it throw, and every /positions request *)
(* is answered 304 with an empty body or else with the serialized JSON     *)
(* array of the cached records.                                            *)
(***************************************************************************)
C7_ErrorsStayLocal ==
    /\ \A p \in Updates : updates[p].state # "rejected" /\ Threw \notin updates[p].returned
    /\ \A t \in Tasks : pc[t] # "threw"
    /\ \A r \in Requests :
          Answered(r) =>
              \/ resp[r].status = 304 /\ resp[r].body = ""
              \/ resp[r].status \in {200, 503} /\ resp[r].body = JSONstringify(vehicles)

\* the handler's own refresh failed and the handler answered with JSON
C7_Witness ==
    \E r \in Requests :
        /\ Answered(r)
        /\ resp[r].error # <<>>
        /\ resp[r].status = 200
        /\ resp[r].body = "[]"
        /\ \E p \in Updates : Array(vehicles) \in updates[p].returned

(***************************************************************************)
(* C8: a /positions request answered while no refresh has ever succeeded   *)
(* (updatedAt unset) gets the empty array with status 503 and the stale    *)
(* indication.                                                             *)
(***************************************************************************)
C8_NeverFetchedIsStale ==
    \A r \in Requests :
        (Answered(r) /\ lastUpdatedAtMs = 0) =>
            /\ resp[r].status = 503
            /\ resp[r].stale
            /\ resp[r].body = "[]"

(***************************************************************************)
(* C9: whenever a /positions request is answered at a time when            *)
(* now - updatedAt exceeds the effective staleness threshold, the response *)
(* has status 503 and X-Feed-Stale: true, and its body is the last         *)
(* committed snapshot.                                                     *)
(***************************************************************************)
C9_StaleIs503 ==
    \A r \in Requests :
        (Answered(r) /\ lastUpdatedAtMs # 0 /\ now - lastUpdatedAtMs > staleAfterMs) =>
            /\ resp[r].status = 503
            /\ resp[r].stale
            /\ resp[r].body = JSONstringify(vehicles)

\* a stale answer that carries the cached record, to a client that sent the
\* current validator
C9_Witness ==
    \E r \in Requests :
        /\ Answered(r)
        /\ now - lastUpdatedAtMs > staleAfterMs
        /\ req[r].ifNoneMatch = <<vehiclesEtag>>
        /\ resp[r].status = 503
        /\ resp[r].stale
        /\ vehicles # <<>>
        /\ resp[r].body = JSONstringify(vehicles)

(***************************************************************************)
(* C10: with refreshIntervalMs=10000 and staleAfterMs=10, a /positions     *)
(* request made 25 ms after the only successful refresh is answered 503    *)
(* with X-Feed-Stale: true and a body that holds the one cached record.    *)
(***************************************************************************)
C10_StaleTest ==
    \A r \in Requests :
        ( /\ options = StaleTestOptions
          /\ Answered(r)
          /\ fetchCalls = 1
          /\ vehicles = DecodeItems(TestFeed)
          /\ lastUpdatedAtMs # 0
          /\ now - lastUpdatedAtMs = 25 ) =>
            /\ resp[r].status = 503
            /\ resp[r].stale
            /\ resp[r].body = JSONstringify(DecodeItems(TestFeed))

(***************************************************************************)
(* C11: /positions answers 304 with an empty body exactly when the         *)
(* request's If-None-Match equals the current fingerprint and the data is  *)
(* not stale; in every other case it answers with the serialized snapshot, *)
(* with status 503 when the data is stale and 200 otherwise.  Stale is     *)
(* what getState() reports: no update yet, or one older than staleAfterMs. *)
(***************************************************************************)
C11_NotModifiedIffFresh ==
    \A r \in Requests :
        Answered(r) =>
            LET matches == req[r].ifNoneMatch = <<vehiclesEtag>>
                fresh == ~GetStateIsStale
            IN  IF matches /\ fresh
                THEN resp[r].status = 304 /\ resp[r].body = ""
                ELSE /\ resp[r].status = (IF fresh THEN 200 ELSE 503)
                     /\ resp[r].body = JSONstringify(vehicles)

(***************************************************************************)
(* C12: a successful refresh whose update instant or content differs from  *)
(* the snapshot it replaces changes the fingerprint, and a /positions      *)
(* request whose validator is not the current fingerprint, as is then the  *)
(* fingerprint of the replaced snapshot, is answered with the full body    *)
(* and never with 304.                                                     *)
(***************************************************************************)
C12_AdvancedSnapshotGetsBody ==
    /\ [][\A p \in Updates, feed \in Feeds :
              ( /\ SucceedsWith(p, feed)
                /\ \/ lastUpdatedAtMs' # lastUpdatedAtMs
                   \/ vehiclesJson' # vehiclesJson ) =>
                  vehiclesEtag' # vehiclesEtag]_vars
    /\ [](\A r \in Requests :
              (Answered(r) /\ req[r].ifNoneMatch # <<vehiclesEtag>>) =>
                  /\ resp[r].status \in {200, 503}
                  /\ resp[r].body = vehiclesJson)

\* a client sent the fingerprint it was given at StartMs while a refresh was
\* in flight; the refresh committed the same records later, and the client
\* got the full body
C12_Witness ==
    \E r \in Requests :
        /\ Answered(r)
        /\ lastUpdatedAtMs > StartMs
        /\ vehicles # <<>>
        /\ req[r].ifNoneMatch = <<computeEtag(StartMs, vehiclesJson)>>
        /\ resp[r].status = 200
        /\ resp[r].body = vehiclesJson

\* C12 as stated: every commit changes the fingerprint, so that the one it
\* replaced is never answered with 304
C12_PreviousValidatorNever304 ==
    /\ [][\A p \in Updates, feed \in Feeds :
              SucceedsWith(p, feed) => vehiclesEtag' # vehiclesEtag]_vars
    /\ [](\A r \in Requests :
              (Answered(r) /\ req[r].ifNoneMatch # <<vehiclesEtag>>) =>
                  resp[r].status # 304)

(***************************************************************************)
(* C13: a /positions request issues an upstream fetch only if no refresh   *)
(* has ever succeeded (updatedAt unset); once a refresh has succeeded,     *)
(* whatever it decoded, and none is in flight, the request is answered     *)
(* from the cache in the turn it arrives in, without a fetch.              *)
(***************************************************************************)
C13_FetchOnlyBeforeFirstSuccess ==
    [][\A r \in Requests :
          (pc[r] = "idle" /\ pc'[r] # "idle") =>
              /\ (fetchCalls' # fetchCalls => lastUpdatedAtMs = 0)
              /\ (lastUpdatedAtMs # 0 /\ inFlightUpdate = 0) =>
                     (fetchCalls' = fetchCalls /\ pc'[r] = "done")]_vars

(***************************************************************************)
(* C14: a fetch that has not completed fetchTimeoutMs after it was issued  *)
(* is aborted and counts as one failed refresh.  When that happens to the  *)
(* refresh of start(), start() goes on to arm the timer and listen,        *)
(* consecutiveFailures is 1, lastError is the abort, and /healthz answers  *)
(* 503 with ok: false, consecutiveFailures: 1 and the error.               *)
(***************************************************************************)
FirstFetchTimedOut == fetchCalls = 1 /\ lastUpdateError = AbortError

C14_TimeoutIsOneFailure ==
    /\ [][\A p \in Updates :
              FetchTimesOut(p) =>
                  /\ consecutiveFailures' = consecutiveFailures + 1
                  /\ lastUpdateError' = AbortError
                  /\ updates'[p].state = "fulfilled"]_vars
    /\ [](FirstFetchTimedOut =>
              /\ consecutiveFailures = 1
              /\ pc[StartTask] # "threw"
              /\ health # NoHealth =>
                     /\ health.status = 503
                     /\ ~health.ok
                     /\ health.consecutiveFailures = 1
                     /\ health.lastError = <<AbortError>>)
    /\ (FirstFetchTimedOut /\ pc[StartTask] = "await_refresh")
           ~> (pc[StartTask] = "await_listening" /\ refreshTimer \in timers)

\* /healthz is answered by the listening server after the only fetch timed out
C14_Witness ==
    /\ FirstFetchTimedOut
    /\ httpServer
    /\ health # NoHealth
    /\ health.status = 503
    /\ health.lastError = <<AbortError>>
    /\ lastUpdatedAtMs = 0

C16_DelayIsCappedExponential ==
    (Armed /\ consecutiveFailures >= 1) =>
        refreshTimer.delay =
            Min(refreshIntervalMs * Min(Pow2(consecutiveFailures - 1), 16),
                maxBackoffMs)

\* six failures in a row: the multiplier cap, not the ceiling, sets the delay
C16_Witness ==
    /\ Armed
    /\ consecutiveFailures = 6
    /\ refreshTimer.delay = 16 * refreshIntervalMs
    /\ refreshTimer.delay
           < Min(refreshIntervalMs * Pow2(consecutiveFailures - 1), maxBackoffMs)

\* C16 as stated: the delay is min(base * 2^(N-1), maxBackoff)
C16_DelayIsExponential ==
    (Armed /\ consecutiveFailures >= 1) =>
        refreshTimer.delay =
            Min(refreshIntervalMs * Pow2(consecutiveFailures - 1), maxBackoffMs)

(***************************************************************************)
(* C17: the retry delay never decreases as the failures add up:            *)
(* delay(N+1) >= delay(N) for every N, and each timer armed during a run   *)
(* of failures waits at least as long as the one before it.                *)
(***************************************************************************)
C17_DelayNeverDecreases ==
    /\ [](\A n \in 0..MaxFailures : Delay(n + 1) >= Delay(n))
    /\ [][(refreshTimer # NoTimer /\ refreshTimer' # refreshTimer) =>
              refreshTimer'.delay >= refreshTimer.delay]_vars

\* a timer armed after the third failure waits longer than the base interval
C17_Witness ==
    /\ Armed
    /\ consecutiveFailures = 3
    /\ refreshTimer.delay > refreshIntervalMs
    /\ refreshTimer.delay = Delay(3)
    /\ Delay(3) > Delay(2)

(***************************************************************************)
(* C18: for every failure count and every configuration createServer       *)
(* accepts, the retry delay exceeds neither maxBackoff nor 16 times the    *)
(* base refresh interval.                                                  *)
(***************************************************************************)
C18_DelayIsBounded ==
    /\ \A n \in 0..(MaxFailures + 1) :
           Delay(n) <= maxBackoffMs /\ Delay(n) <= 16 * refreshIntervalMs
    /\ Armed =>
           /\ refreshTimer.delay <= maxBackoffMs
           /\ refreshTimer.delay <= 16 * refreshIntervalMs

\* the ceiling sets the delay, below 16 times the base interval
C18_Witness ==
    /\ Armed
    /\ consecutiveFailures >= 2
    /\ refreshTimer.delay = maxBackoffMs
    /\ maxBackoffMs < 16 * refreshIntervalMs
    /\ refreshIntervalMs * Pow2(consecutiveFailures - 1) > maxBackoffMs

(***************************************************************************)
(* C19: the schedule perpetuates itself.  A timer that fires performs a    *)
(* refresh; if every refresh ends, the callback resumes, and unless the    *)
(* server has been stopped it then arms a new one-shot timer with the      *)
(* delay of the current failure count, whether that refresh succeeded or   *)
(* failed.                                                                 *)
(***************************************************************************)
TimerCallbackRuns == pc[TimerTask] = "await_refresh"

C19_ScheduleRecurs ==
    /\ [][(pc[TimerTask] = "idle" /\ pc'[TimerTask] = "await_refresh") =>
              awaiting'[TimerTask] \in FetchesInFlight']_vars
    /\ [][(TimerCallbackRuns /\ ~TimerCallbackRuns' /\ ~hasStopped) =>
              /\ pc'[TimerTask] = "idle"
              /\ refreshTimer' \in timers'
              /\ refreshTimer'.delay = Delay(consecutiveFailures)
              /\ refreshTimer'.due = now + Delay(consecutiveFailures)]_vars
    /\ ([]<>(FetchesInFlight = {})) => (TimerCallbackRuns ~> ~TimerCallbackRuns)

\* the refresh of a timer callback failed and the callback has armed the next
\* timer
C19_Witness ==
    /\ pc[TimerTask] = "idle"
    /\ pc[StartTask] = "idle"
    /\ httpServer
    /\ \A r \in Requests : pc[r] = "idle"
    /\ \E p \in Updates : updates[p].state = "fulfilled" /\ updates[p].returned # {}
    /\ fetchCalls >= 2
    /\ lastUpdateError # NoError
    /\ Armed
    /\ refreshTimer.due = now + Delay(consecutiveFailures)

(***************************************************************************)
(* C20: stop() cancels the armed refresh timer, so that no timer is armed  *)
(* when it returns, and a refresh that was in flight when stop() was       *)
(* called ends without an error reaching the tasks that were waiting for   *)
(* it and without any of them arming a new timer.                          *)
(***************************************************************************)
C20_StopCancelsTimer ==
    /\ [][(~hasStopped /\ hasStopped') =>
              (timers' = {} /\ refreshTimer' = NoTimer)]_vars
    /\ [][\A t \in Tasks :
              ( /\ awaiting[t] # 0
                /\ awaiting'[t] = 0
                /\ t \in updates[awaiting[t]].stopped ) =>
                  (pc'[t] # "threw" /\ timers' \subseteq timers)]_vars

(***************************************************************************)
(* C21: /healthz reports ok: false exactly when the last refresh failed or *)
(* the staleness (now - lastUpdatedAtMs, of a snapshot that exists)        *)
(* exceeds staleAfterMs; its status is 200 exactly when ok is true and 503 *)
(* otherwise.                                                              *)
(***************************************************************************)
C21_HealthReflectsErrorOrStaleness ==
    health # NoHealth =>
        /\ health.ok \in BOOLEAN
        /\ ~health.ok <=>
               \/ lastUpdateError # NoError
               \/ lastUpdatedAtMs # 0 /\ now - lastUpdatedAtMs > staleAfterMs
        /\ health.status = 200 <=> health.ok
        /\ health.status = 503 <=> ~health.ok

\* the last refresh succeeded and its snapshot has grown stale: /healthz
\* answers 503 with ok: false and no error
C21_Witness ==
    /\ health # NoHealth
    /\ lastUpdateError = NoError
    /\ lastUpdatedAtMs # 0
    /\ now - lastUpdatedAtMs > staleAfterMs
    /\ health.ok = FALSE
    /\ health.status = 503
    /\ health.lastError = <<>>

(***************************************************************************)
(* C22: whenever the data is stale (older than staleAfterMs, or never      *)
(* fetched) or the last refresh failed, a /positions response carries the  *)
(* Retry-After hint of the base refresh interval, X-Feed-Stale and         *)
(* X-Feed-Warning when the data is stale, and X-Feed-Error when the last   *)
(* refresh failed.                                                         *)
(***************************************************************************)
C22_StaleOrFailedIsSignalled ==
    \A r \in Requests :
        (Answered(r) /\ resp[r].status # 500) =>
            LET stale == GetStateIsStale
                failed == lastUpdateError # NoError
            IN  /\ (stale \/ failed) => resp[r].retryAfter = <<RetryAfterSeconds>>
                /\ stale => (resp[r].stale /\ resp[r].warning = <<staleAfterMs>>)
                /\ failed => resp[r].error = <<lastUpdateError>>

(***************************************************************************)
(* C23: the effective base refresh interval is 30000 ms when none is       *)
(* configured, or when the configured value is zero or negative; a         *)
(* configured value from 1 to 4999 ms is raised to exactly 5000 ms, and a  *)
(* configured value of 5000 ms or more is used unchanged.  The first timer *)
(* after a successful refresh is armed with it and /healthz reports it.    *)
(***************************************************************************)
ConfiguredInterval == Configured("REFRESH_INTERVAL_MS", "refreshIntervalMs")

C23_IntervalDefaultAndFloor ==
    LET c == ConfiguredInterval
        expected == IF ~Given(c) THEN 30000
                    ELSE IF c[1] <= 0 THEN 30000
                    ELSE IF c[1] < 5000 THEN 5000
                    ELSE c[1]
    IN  /\ refreshIntervalMs = expected
        /\ (Armed /\ consecutiveFailures = 0) => refreshTimer.delay = expected
        /\ health # NoHealth => health.refreshIntervalMs = expected

\* REFRESH_INTERVAL_MS=1000: the timer is armed with 5000 ms
C23_Witness ==
    /\ env # <<>>
    /\ ConfiguredInterval = <<1000>>
    /\ Armed
    /\ consecutiveFailures = 0
    /\ refreshTimer.delay = 5000

\* C23 as stated: every configured value below 5000 ms is raised to 5000 ms
C23_AnyValueBelowFloorIsRaised ==
    LET c == ConfiguredInterval
        expected == IF ~Given(c) THEN 30000
                    ELSE IF c[1] < 5000 THEN 5000
                    ELSE c[1]
    IN  /\ refreshIntervalMs = expected
        /\ (Armed /\ consecutiveFailures = 0) => refreshTimer.delay = expected
        /\ health # NoHealth => health.refreshIntervalMs = expected

(***************************************************************************)
(* C24: the effective staleness threshold is 4 times the effective base    *)
(* interval when none is configured, and a configured threshold (a         *)
(* positive number) below 2 times the effective base interval is raised to *)
(* exactly 2 times it; /healthz reports the effective threshold.           *)
(***************************************************************************)
ConfiguredThreshold == Configured("STALE_AFTER_MS", "staleAfterMs")

C24_ThresholdDefaultAndFloor ==
    LET c == ConfiguredThreshold
    IN  /\ ~Given(c) =>
               /\ staleAfterMs = 4 * refreshIntervalMs
               /\ health # NoHealth => health.staleAfterMs = 4 * health.refreshIntervalMs
        /\ (Given(c) /\ c[1] > 0 /\ c[1] < 2 * refreshIntervalMs) =>
               /\ staleAfterMs = 2 * refreshIntervalMs
               /\ health # NoHealth => health.staleAfterMs = 2 * health.refreshIntervalMs

(***************************************************************************)
(* C25: the effective backoff ceiling is max(8 x effective base interval,  *)
(* 5 minutes) when none is configured, and a configured ceiling that is    *)
(* less than or equal to the effective base interval is replaced by that   *)
(* same default; the delay after repeated failures is capped by it.        *)
(***************************************************************************)
ConfiguredCeiling == Configured("MAX_BACKOFF_MS", "maxBackoffMs")

C25_CeilingDefault ==
    LET c == ConfiguredCeiling
        default == Max(8 * refreshIntervalMs, 5 * 60 * 1000)
    IN  (~Given(c) \/ c[1] <= refreshIntervalMs) =>
            /\ maxBackoffMs = default
            /\ (Armed /\ consecutiveFailures > 0) =>
                   refreshTimer.delay =
                       Min(refreshIntervalMs * Min(Pow2(consecutiveFailures - 1), 16),
                           default)

(***************************************************************************)
(* C26: readers never observe a partially updated snapshot.  In every      *)
(* state, and so whenever a handler runs, the fingerprint is the one       *)
(* computed from the current lastUpdatedAtMs and vehiclesJson,             *)
(* vehiclesJson is the serialization of the current records, and the ETag  *)
(* and the body of one /positions response come from the same commit.      *)
(***************************************************************************)
C26_SnapshotIsAtomic ==
    /\ vehiclesEtag = computeEtag(lastUpdatedAtMs, vehiclesJson)
    /\ vehiclesJson = JSONstringify(vehicles)
    /\ \A r \in Requests :
           (Answered(r) /\ resp[r].status # 500) =>
               /\ resp[r].etag = vehiclesEtag
               /\ resp[r].updatedAt =
                      (IF lastUpdatedAtMs # 0 THEN <<lastUpdatedAtMs>> ELSE <<>>)
               /\ resp[r].status \in {200, 503} =>
                      /\ resp[r].body = JSONstringify(vehicles)
                      /\ resp[r].etag = computeEtag(lastUpdatedAtMs, resp[r].body)

\* a handler that waited for a refresh answers with the records that the
\* refresh committed at a later instant than the server was created
C26_Witness ==
    \E r \in Requests :
        /\ Answered(r)
        /\ resp[r].status = 200
        /\ lastUpdatedAtMs > StartMs
        /\ vehicles # <<>>
        /\ resp[r].body = JSONstringify(vehicles)
        /\ resp[r].etag = computeEtag(lastUpdatedAtMs, resp[r].body)

(***************************************************************************)
(* C27: the fingerprint is the "empty" sentinel exactly when no refresh    *)
(* has succeeded yet (lastUpdatedAtMs is 0); a successful refresh sets     *)
(* lastUpdatedAtMs, after which the fingerprint always has the form        *)
(* "<lastUpdatedAtMs>-<sha1 of vehiclesJson>" and never reverts to the     *)
(* sentinel.                                                               *)
(***************************************************************************)
EmptySentinel == "W/\"empty-" \o sha1("[]") \o "\""

C27_SentinelOnlyBeforeFirstSuccess ==
    /\ [](vehiclesEtag = EmptySentinel <=> lastUpdatedAtMs = 0)
    /\ [](lastUpdatedAtMs # 0 =>
              vehiclesEtag =
                  "\"" \o ToString(lastUpdatedAtMs) \o "-" \o sha1(vehiclesJson) \o "\"")
    /\ [][(lastUpdatedAtMs' # lastUpdatedAtMs \/ vehiclesEtag' # vehiclesEtag) =>
              \E p \in Updates, feed \in Feeds : SucceedsWith(p, feed)]_vars
    /\ [][(\E p \in Updates, feed \in Feeds : SucceedsWith(p, feed)) =>
              (lastUpdatedAtMs' # 0 /\ vehiclesEtag' # EmptySentinel)]_vars
    /\ [][lastUpdatedAtMs # 0 =>
              (lastUpdatedAtMs' # 0 /\ vehiclesEtag' # EmptySentinel)]_vars

\* a refresh has failed after one that succeeded: the fingerprint is still
\* the one of the success
C27_Witness ==
    /\ lastUpdatedAtMs # 0
    /\ lastUpdateError # NoError
    /\ now > lastUpdatedAtMs
    /\ vehiclesEtag # EmptySentinel
    /\ vehiclesEtag =
           "\"" \o ToString(lastUpdatedAtMs) \o "-" \o sha1(vehiclesJson) \o "\""

(***************************************************************************)
(* C28: the records a refresh commits are exactly the upstream entities    *)
(* that have a position with both latitude and longitude, in upstream      *)
(* order: no entity lacking a coordinate appears, no qualifying entity is  *)
(* dropped (a coordinate of 0 is a coordinate), and there are at most as   *)
(* many records as entities.                                               *)
(***************************************************************************)
Qualifies(entity) ==
    /\ entity.vehicle # <<>>
    /\ entity.vehicle[1].position # <<>>
    /\ entity.vehicle[1].position[1].latitude # <<>>
    /\ entity.vehicle[1].position[1].longitude # <<>>

C28_DecodeKeepsPositionedEntities ==
    [][\A p \in Updates, feed \in DecodeFeeds :
          SucceedsWith(p, feed) =>
              LET kept == SelectSeq(feed, Qualifies)
              IN  /\ Len(vehicles') = Len(kept)
                  /\ Len(vehicles') <= Len(feed)
                  /\ \A i \in 1..Len(kept) :
                         /\ vehicles'[i] = Item(kept[i])
                         /\ vehicles'[i].lat = kept[i].vehicle[1].position[1].latitude[1]
                         /\ vehicles'[i].lon = kept[i].vehicle[1].position[1].longitude[1]]_vars

\* the vehicle at latitude 0, longitude 0 was committed before vehicle veh-7,
\* in the order of the feed
C28_Witness ==
    /\ lastUpdatedAtMs # 0
    /\ Len(vehicles) = 2
    /\ vehicles[1].id = <<"veh-4">>
    /\ vehicles[1].lat = 0
    /\ vehicles[1].lon = 0
    /\ vehicles[2].id = <<"veh-7">>
    /\ vehicles[2].lat = 52

(***************************************************************************)
(* C29: the headsign fallback is applied only when the entity has no       *)
(* explicit headsign.  A record of an entity with a (non-empty) explicit   *)
(* headsign carries that headsign, trimmed; any other record carries the   *)
(* text that follows the first separator (-, en dash or >, once or twice)  *)
(* of its label, trimmed, and no headsign when its label has no separator  *)
(* or nothing after it.  Label 12-Lagiewnicka yields Lagiewnicka.          *)
(***************************************************************************)
\* the headsign the entity states, in the order the properties are read
ExplicitHeadsigns(entity) ==
    LET vehicle == entity.vehicle[1]
        ofTrip == IF vehicle.trip = <<>> THEN <<>>
                  ELSE <<vehicle.trip[1].tripHeadsign, vehicle.trip[1].trip_headsign,
                         vehicle.trip[1].headsign, vehicle.trip[1].tripDestination,
                         vehicle.trip[1].destination>>
        NonEmpty(o) == o # <<>> /\ o # <<"">>
    IN  SelectSeq(<<vehicle.headsign>> \o ofTrip, NonEmpty)

\* the text after the first separator of a label
AfterFirstSeparator(label) ==
    IF label = <<>> THEN <<>>
    ELSE LET text == label[1]
             positions == {i \in 1..Len(text) : SubSeq(text, i, i) \in {"-", "~", ">"}}
         IN  IF positions = {} THEN <<>>
             ELSE LET first == CHOOSE i \in positions : \A j \in positions : i <= j
                      twice == first + 1 \in positions /\ first + 2 <= Len(text)
                      after == SubSeq(text, first + (IF twice THEN 2 ELSE 1), Len(text))
                  IN  IF after = "" THEN <<>> ELSE <<trim(after)>>

C29_HeadsignFallbackOnlyWithoutExplicit ==
    [][\A p \in Updates, feed \in DecodeFeeds :
          SucceedsWith(p, feed) =>
              LET kept == SelectSeq(feed, Qualifies)
              IN  \A i \in 1..Len(kept) :
                      /\ i <= Len(vehicles')
                      /\ IF ExplicitHeadsigns(kept[i]) # <<>>
                         THEN vehicles'[i].headsign =
                                  <<trim(ExplicitHeadsigns(kept[i])[1][1])>>
                         ELSE vehicles'[i].headsign =
                                  AfterFirstSeparator(vehicles'[i].label)
                      /\ (ExplicitHeadsigns(kept[i]) = <<>>
                             /\ vehicles'[i].label = <<"12-Lagiewnicka">>) =>
                             vehicles'[i].headsign = <<"Lagiewnicka">>]_vars

\* of two vehicles labelled 12-Lagiewnicka, the one whose trip is headed for
\* Centrum kept its headsign and the other one got Lagiewnicka
C29_Witness ==
    /\ lastUpdatedAtMs # 0
    /\ Len(vehicles) = 2
    /\ vehicles[1].label = <<"12-Lagiewnicka">>
    /\ vehicles[1].headsign = <<"Centrum">>
    /\ vehicles[2].label = <<"12-Lagiewnicka">>
    /\ vehicles[2].headsign = <<"Lagiewnicka">>

(***************************************************************************)
(* C30: a record's directionId is present only if the upstream entity      *)
(* provided one, as directionId or as direction_id: a provided 0 is        *)
(* reported as 0, and an entity with no direction id, or with no trip, is  *)
(* reported with a null directionId, never 0.                              *)
(***************************************************************************)
\* the direction ids the entity provides, directionId before direction_id
ProvidedDirections(entity) ==
    LET vehicle == entity.vehicle[1]
    IN  IF vehicle.trip = <<>> THEN <<>>
        ELSE vehicle.trip[1].directionId \o vehicle.trip[1].direction_id

C30_DirectionIdOnlyIfProvided ==
    [][\A p \in Updates, feed \in DecodeFeeds :
          SucceedsWith(p, feed) =>
              LET kept == SelectSeq(feed, Qualifies)
              IN  \A i \in 1..Len(kept) :
                      /\ i <= Len(vehicles')
                      /\ ProvidedDirections(kept[i]) = <<>> =>
                             vehicles'[i].directionId = <<>>
                      /\ ProvidedDirections(kept[i]) # <<>> =>
                             vehicles'[i].directionId = <<ProvidedDirections(kept[i])[1]>>
                      /\ vehicles'[i].directionId = <<0>> =>
                             0 \in {ProvidedDirections(kept[i])[j] :
                                        j \in 1..Len(ProvidedDirections(kept[i]))}]_vars

\* a vehicle whose trip states direction 0 was committed before a vehicle
\* whose trip states no direction: 0 and null in the records and in the JSON
C30_Witness ==
    /\ lastUpdatedAtMs # 0
    /\ Len(vehicles) = 2
    /\ vehicles[1].id = <<"veh-4">>
    /\ vehicles[1].directionId = <<0>>
    /\ vehicles[2].id = <<"veh-6">>
    /\ vehicles[2].directionId = <<>>
    /\ vehiclesJson = JSONstringify(vehicles)
    /\ ItemJson(vehicles[2]) =
           "{\"id\":\"veh-6\",\"label\":\"10\",\"lat\":51,\"lon\":0,"
               \o "\"headsign\":null,\"directionId\":null}"

(***************************************************************************)
(* C31: a /positions request that arrives while a refresh is in flight     *)
(* waits for that refresh and is answered only after it has completed; the *)
(* snapshot and error state the refresh left are not changed before the    *)
(* answer, and the status, headers and body of the answer are taken from   *)
(* them.                                                                   *)
(***************************************************************************)
C31_WaiterSeesResultOfRefresh ==
    /\ [][\A r \in Requests :
              (pc[r] = "idle" /\ pc'[r] # "idle" /\ inFlightUpdate # 0) =>
                  /\ pc'[r] = "await_inflight"
                  /\ awaiting'[r] = inFlightUpdate
                  /\ updates[inFlightUpdate].state \in Pending
                  /\ resp'[r] = NoResponse
                  /\ fetchCalls' = fetchCalls]_vars
    /\ [][\A r \in Requests :
              (pc[r] = "await_inflight" /\ pc'[r] # "await_inflight") =>
                  /\ updates[awaiting[r]].state \in Settled
                  /\ UNCHANGED <<cacheVars, now>>
                  /\ pc'[r] = "done"
                  /\ resp'[r].etag = vehiclesEtag
                  /\ resp'[r].updatedAt =
                         (IF lastUpdatedAtMs # 0 THEN <<lastUpdatedAtMs>> ELSE <<>>)
                  /\ resp'[r].error =
                         (IF lastUpdateError # NoError THEN <<lastUpdateError>> ELSE <<>>)
                  /\ resp'[r].status \in {200, 304, 503}
                  /\ resp'[r].status = 304 => req[r].ifNoneMatch = <<vehiclesEtag>>
                  /\ resp'[r].status # 304 => resp'[r].body = vehiclesJson
                  /\ resp'[r].status = 503 <=> IsStale(StalenessMs)]_vars
    /\ [][(\E r \in Requests :
               pc[r] = "await_inflight" /\ updates[awaiting[r]].state \in Settled) =>
              UNCHANGED <<cacheVars, now>>]_vars

\* a request found a refresh in flight while records were cached; the refresh
\* failed on the network, and the answer carries the error and the records
\* cached before
C31_Witness ==
    \E r \in Requests, p \in Updates :
        /\ Answered(r)
        /\ updates[p].state = "fulfilled"
        /\ vehicles # <<>>
        /\ lastUpdateError = NetworkError
        /\ resp[r].error = <<NetworkError>>
        /\ resp[r].status = 200
        /\ resp[r].body = vehiclesJson

(***************************************************************************)
(* C32: the timer callback arms the next timer only when the refresh it    *)
(* awaited has completed, with the delay computed from the                 *)
(* consecutiveFailures that refresh left; the callback runs only for a     *)
(* timer that was armed and due, and no refresh timer is armed while the   *)
(* refresh awaited by the callback is running, so no second timer-driven   *)
(* refresh can begin before the first has ended.                           *)
(***************************************************************************)
C32_TimerRearmedAfterRefresh ==
    /\ [][(pc[TimerTask] = "await_refresh" /\ pc'[TimerTask] # "await_refresh") =>
              /\ updates[awaiting[TimerTask]].state \in Settled
              /\ UNCHANGED <<cacheVars, now>>
              /\ timers' # timers =>
                     /\ timers' = {Timeout(Delay(consecutiveFailures))}
                     /\ refreshTimer' = Timeout(Delay(consecutiveFailures))]_vars
    /\ [][(pc[TimerTask] = "await_refresh"
              /\ updates[awaiting[TimerTask]].state \in Settled) =>
              UNCHANGED <<cacheVars, now>>]_vars
    /\ [][(pc[TimerTask] = "idle" /\ pc'[TimerTask] # "idle") =>
              \E tm \in timers : now >= tm.due /\ timers' = {}]_vars
    /\ [](pc[TimerTask] = "await_refresh"
              /\ updates[awaiting[TimerTask]].state \in Pending => timers = {})

\* the refresh begun by a fired timer failed, and the callback has armed
\* the next timer with the delay for one failure more than before
C32_Witness ==
    /\ pc[TimerTask] = "idle"
    /\ consecutiveFailures = 2
    /\ refreshTimer \in timers
    /\ refreshTimer = Timeout(Delay(2))
    /\ \E p \in Updates : updates[p].state = "fulfilled" /\ updates[p].returned # {}

\* C32 as stated: no refresh timer is armed while any refresh is running;
\* a request that finds nothing cached starts a refresh under an armed timer
C32_NoTimerArmedDuringAnyRefresh ==
    (inFlightUpdate # 0 /\ updates[inFlightUpdate].state \in Pending) => timers = {}

(***************************************************************************)
(* C33: once stop() has been called and start() has not been called again, *)
(* no step arms a refresh timer and no timer callback starts a refresh,    *)
(* also when start()'s first refresh or a timer-driven refresh was in      *)
(* flight at the time of the call.  start() has not been called again      *)
(* while hasStopped is set and start() is either not running, or is        *)
(* waiting to listen, or is waiting for a refresh it awaited already when  *)
(* stop() was called.                                                      *)
(***************************************************************************)
C33_NoTimerOnceStopped ==
    [][LET startNotCalledAgain ==
               \/ pc[StartTask] \in {"idle", "await_listening"}
               \/ /\ awaiting[StartTask] # 0
                  /\ StartTask \in updates[awaiting[StartTask]].stopped
       IN  (hasStopped /\ startNotCalledAgain) =>
               /\ timers' \subseteq timers
               /\ ~(pc[TimerTask] = "idle" /\ pc'[TimerTask] # "idle")]_vars

(***************************************************************************)
(* C34: in every reachable state at most one refresh timer is armed, and   *)
(* an armed timer is the one whose handle is stored in refreshTimer.       *)
(***************************************************************************)
C34_AtMostOneTimer ==
    /\ Cardinality(timers) <= 1
    /\ timers \subseteq {refreshTimer}

\* stop() was called while two tasks were waiting for one refresh, the
\* refresh has ended and a timer is armed
C34_Witness ==
    /\ Cardinality(timers) = 1
    /\ \E p \in Updates :
           /\ updates[p].state = "fulfilled"
           /\ Cardinality(updates[p].stopped) >= 2

(***************************************************************************)
(* C35: in every reachable state the last error is set if and only if      *)
(* consecutiveFailures is greater than 0.                                  *)
(***************************************************************************)
C35_ErrorIffFailures ==
    /\ consecutiveFailures >= 0
    /\ lastUpdateError # NoError <=> consecutiveFailures > 0

\* a snapshot is cached and the two refreshes after it have failed, the
\* second on a payload that does not decode
C35_Witness ==
    /\ lastUpdatedAtMs # 0
    /\ consecutiveFailures = 2
    /\ lastUpdateError = DecodeError

(***************************************************************************)
(* C36: over any sequence of refreshes the time of the last update never   *)
(* decreases, it changes only to the time of a commit, and once a          *)
(* successful refresh has set it, it is never unset again.                 *)
(***************************************************************************)
C36_UpdatedAtIsMonotonic ==
    [][/\ lastUpdatedAtMs' >= lastUpdatedAtMs
       /\ lastUpdatedAtMs # 0 => lastUpdatedAtMs' # 0
       /\ lastUpdatedAtMs' # lastUpdatedAtMs => lastUpdatedAtMs' = now]_vars

\* a snapshot was committed, time has passed, and the refresh after it
\* failed: the time of the last update is still that of the commit
C36_Witness ==
    /\ lastUpdatedAtMs # 0
    /\ lastUpdatedAtMs < now
    /\ consecutiveFailures >= 1
    /\ fetchCalls >= 2

(***************************************************************************)
(* C37: whenever /positions answers, it answers 503 with X-Feed-Stale:     *)
(* true exactly when the isStale flag that getState() returns in that      *)
(* state at that instant is true, also before any successful refresh.      *)
(***************************************************************************)
C37_GetStateAgreesWithPositions ==
    \A r \in Requests :
        (Answered(r) /\ resp[r] # Failure) =>
            /\ IsStale(StalenessMs) <=> GetStateIsStale
            /\ (resp[r].status = 503 /\ resp[r].stale) <=> GetStateIsStale

(***************************************************************************)
(* C38: for every configuration createServer accepts and every count of    *)
(* consecutive failures, 0 included, the delay scheduleNextRefresh         *)
(* computes is at least the effective refresh interval, and it is the      *)
(* interval itself when the count is 0 or 1; an armed timer has such a     *)
(* delay.                                                                  *)
(***************************************************************************)
C38_DelayAtLeastInterval ==
    /\ \A n \in 0..MaxFailures :
           /\ Delay(n) >= refreshIntervalMs
           /\ n \in {0, 1} => Delay(n) = refreshIntervalMs
    /\ Armed =>
           /\ refreshTimer.delay >= refreshIntervalMs
           /\ consecutiveFailures \in {0, 1} => refreshTimer.delay = refreshIntervalMs

\* a ceiling below the interval was configured, one refresh has failed and
\* the timer is armed with the interval
C38_Witness ==
    /\ Given(options.maxBackoffMs)
    /\ options.maxBackoffMs[1] > 0
    /\ options.maxBackoffMs[1] < refreshIntervalMs
    /\ consecutiveFailures = 1
    /\ Armed
    /\ refreshTimer.delay = refreshIntervalMs

====
